---- MODULE Spec2Model ----
(***************************************************************************)
(* Chain event ingestion and memo correlation of the Concordium Discord    *)
(* bot (modules/txloggerListener.js, modules/alerts.js).                   *)
(*                                                                         *)
(*  - SpecStream : the finalized-block consumption loop of                 *)
(*                 startTxLoggerListener (gap backfill, reconnect).        *)
(*  - SpecWaiters: the memo-waiter registry and the per-transaction        *)
(*                 correlation of processBlock, interleaved at the awaits  *)
(*                 of processBlock with register / cancel / prune.         *)
(*  - SpecBuckets: the debounced aggregation buckets of modules/alerts.js  *)
(*                 (new-delegator and commission), their timers and flush. *)
(***************************************************************************)
EXTENDS Integers, Sequences, FiniteSets, TLC

\* ------------------------------------------------------------------ bounds
\* Highest block height the node delivers in the model.
MaxHeight == 5
\* Number of stream failures followed in one behaviour.
MaxErrors == 2

\* Registrations followed in one behaviour.
MaxRegs == 2
\* Transactions followed in one behaviour.
MaxTx == 2
\* Clock readings after the first one.
MaxTicks == 2
\* Registrations, transactions, clock readings and events of the running
\* fan-out together in one behaviour.
MaxOps == 4
\* Events of one transaction, and special events of one block, that are
\* handed to the fan-out.
MaxEvents == 2

\* Handler calls of the aggregation (new-delegator and commission events)
\* followed in one behaviour.
MaxBucketEvents == 3
\* Half debounce windows the event loop's time is followed for.
MaxClockSteps == 3
\* Handler calls and half windows together in one behaviour.
MaxBucketOps == 5
\* Largest `retries` handed to retryAsync.
MaxRetries == 2
\* Most events in the transaction handed to handleTxAlerts.
MaxTxLen == 3

\* `let lastHeight = null`: the value standing for "no height known".
NoHeight == -1

Heights == 0..MaxHeight

VARIABLES
  \* ---- startTxLoggerListener
  pc,           \* position of the listener loop
  probe,        \* history: outcome of getConsensusStatus ("pending" before)
  lastHeight,   \* module variable lastHeight (NoHeight = null)
  cur,          \* h of the block delivered by the stream (NoHeight: none yet)
  hh,           \* backfill loop variable
  nextMin,      \* node side: lowest height the open stream can still deliver
  streamStart,  \* start height of the open subscription (NoHeight: from tip)
  processed,    \* history: heights passed to processBlock, in call order
  attempts,     \* history: number of getBlocksAtHeight calls per height
  fetchFailed,  \* history: heights whose backfill fetch threw
  fetchEmpty,   \* history: heights whose backfill fetch yielded no block
  errors,       \* history: stream failures caught so far
  \* ---- waiter registry and processBlock
  waiters,            \* role -> (Map key -> waiter): delegatorWaiters, validatorWaiters
  wrongMemoNotifier,  \* role -> TRUE when the wrong-memo notifier is installed
  expiredNotifier,    \* role -> TRUE when the expiry notifier is installed
  now,                \* Date.now()
  nextId,             \* identity of the next registration (its context and callbacks)
  pb,                 \* locals and position of the running processBlock
  txDone,             \* transactions of the blocks handed to processBlock so far
  succ,               \* history: onSuccess invocations per waiter
  wrong,              \* history: wrong-memo notifier invocations per waiter
  expired,            \* history: expiry notifier invocations per waiter
  regs,               \* history: role, key and memo of each registration
  \* ---- aggregation buckets of modules/alerts.js
  newDelegatorBuckets,  \* Map key -> bucket object (NoBucket: no entry)
  commissionBuckets,    \* Map key -> bucket object (NoBucket: no entry)
  ndObjs,               \* the new-delegator bucket objects ever created
  cmObjs,               \* the commission bucket objects ever created
  timers,               \* pending setTimeout callbacks
  nextTimer,            \* identity of the next Timeout object
  clock,                \* time of the event loop, in ms
  flushing,             \* flushNewDelegatorBucket calls awaiting pool.query
  newDelegatorJoined,   \* history: new-delegator notifications sent
  bevents,              \* history: handler calls made by handleTxAlerts
  ndHist,               \* history: insertions, timers and flushes per object
  cmHist,               \* history: insertions, timers and flushes per object
  alertsTx,             \* the transaction handleTxAlerts is at (index of TxOrder)
  \* ---- flushCommissionBucket and the table validator_commissions
  validator_commissions,  \* validator id -> row of the table (NoRow: none)
  cmFlush,                \* bucket object -> position and locals of its flush
  commissionChanged,      \* history: commission notifications sent
  \* ---- the memo comparison of processBlock on its own
  memoText,      \* memo.text of the transaction
  memoExpected,  \* w.expectedMemo of the waiter
  memoOk,        \* `ok` of the comparison ("unset" before it)
  \* ---- retryAsync of utils/retry.js
  retryPc,       \* position of the running retryAsync ("none": no call)
  retryArg,      \* argument `retries`
  attempt,       \* local `attempt`
  fnCalls,       \* history: invocations of fn
  fnErrors,      \* history: the errors fn rejected with, in order
  retryResult,   \* what retryAsync resolved or rejected with
  \* ---- the register wrappers of roles/*.js
  wrappers,      \* wrapper call -> its arguments, `unsubscribe`, cancel called
  \* ---- handleTxAlerts of the listener
  txEvents,          \* argument `events`
  txaPc,             \* position of handleTxAlerts ("none": no call)
  txaIdx,            \* index of `ev` in the second loop
  newDelegatorsInTx, \* local Set `newDelegatorsInTx`
  vdelPools,         \* table validator_delegators: delegator_id -> validator_ids
  dispatched         \* history: the calls made into modules/alerts.js

streamVars == <<pc, probe, lastHeight, cur, hh, nextMin, streamStart, processed,
                attempts, fetchFailed, fetchEmpty, errors>>

waiterVars == <<waiters, wrongMemoNotifier, expiredNotifier, now, nextId, pb,
                txDone, succ, wrong, expired, regs>>

bucketVars == <<newDelegatorBuckets, commissionBuckets, ndObjs, cmObjs, timers,
                nextTimer, clock, flushing, newDelegatorJoined, bevents,
                ndHist, cmHist, alertsTx>>

commissionVars == <<validator_commissions, cmFlush, commissionChanged>>

memoVars == <<memoText, memoExpected, memoOk>>

retryVars == <<retryPc, retryArg, attempt, fnCalls, fnErrors, retryResult>>

wrapperVars == <<wrappers>>

fanoutVars == <<txEvents, txaPc, txaIdx, newDelegatorsInTx, vdelPools,
                dispatched>>

vars == <<streamVars, waiterVars, bucketVars, commissionVars, memoVars,
          retryVars, wrapperVars, fanoutVars>>

Range(s) == {s[i] : i \in DOMAIN s}


\* ===================================================== strings of the model
\* A string is a sequence of characters; <<>> is both "" and null/undefined,
\* which the code tests alike (`!a`, `!s`, `|| null`, `memo.text &&`).
Empty == <<>>

\* String.prototype.toLowerCase on the characters of the model.
LowerChar(c) == IF c = "A" THEN "a" ELSE IF c = "X" THEN "x" ELSE c
\* White space for String.prototype.trim and for \s.
IsWs(c) == c \in {" ", "tab", "nbsp"}
\* String.prototype.normalize("NFKC"): compatibility characters folded.
NFKC(c) == IF c = "fw1" THEN "1" ELSE IF c = "nbsp" THEN " " ELSE c
\* replace(/[\u0000-\u001F\u007F ]/g, " ")
CtlToSpace(c) == IF c \in {"tab", "nul", "nbsp"} THEN " " ELSE c

ToLower_keep(s) == s
ToLower(s) == [i \in DOMAIN s |-> LowerChar(s[i])]

RECURSIVE TrimStart(_)
TrimStart(s) ==
  IF s # <<>> /\ IsWs(Head(s)) THEN TrimStart(Tail(s)) ELSE s
RECURSIVE TrimEnd(_)
TrimEnd(s) ==
  IF s # <<>> /\ IsWs(s[Len(s)]) THEN TrimEnd(SubSeq(s, 1, Len(s) - 1)) ELSE s
\* String.prototype.trim
Trim(s) == TrimEnd(TrimStart(s))

RECURSIVE CollapseWs(_)
\* replace(/\s+/g, " ")
CollapseWs(s) ==
  IF s = <<>> THEN <<>>
  ELSE IF IsWs(Head(s))
         THEN <<" ">> \o CollapseWs(TrimStart(s))
         ELSE <<Head(s)>> \o CollapseWs(Tail(s))

normAddr(a) == IF a = Empty THEN Empty ELSE ToLower(Trim(a))

normMemo(s) ==
  IF s = Empty THEN Empty
  ELSE ToLower(Trim(CollapseWs(
         [i \in DOMAIN s |-> CtlToSpace(NFKC(s[i]))])))

\* Addresses handed to the register functions, and senders of transactions.
RegAddrs == {<<"3", "X">>, <<" ", "3", "x">>}
SenderInputs == {<<"3", "X">>, <<"4", "y">>}
\* Keys a Map of waiters can be asked for.
KeySpace == RegAddrs \cup SenderInputs
              \cup {normAddr(a) : a \in RegAddrs \cup SenderInputs}
\* Memos handed to the register functions.
ExpectedMemos == {<<"1", "2">>, <<"A", "9">>}
\* The line after "Transfer memo:" in the CLI output; <<>> when the CLI
\* failed, printed no memo, or printed a blank line.
MemoLines == {Empty, <<"1", "2">>, <<" ", "a", "9">>, <<"9", "9">>}

\* Memos compared on their own: case, leading, trailing and repeated white
\* space, control characters, compatibility digits, differing digits.
MemoTexts ==
  {Empty, <<" ">>, <<"A", "9">>, <<"a", "9">>, <<" ", "a", "9", " ">>,
   <<"A", " ", "9">>, <<"a", " ", " ", "9">>, <<"a", "tab", "9">>,
   <<"a", "1">>, <<"fw1", "2">>, <<"1", "2">>, <<"nbsp", "1", "2", "nul">>}

\* No retryAsync call is under way.
NoRetry ==
  /\ retryPc = "none"
  /\ retryArg = 0
  /\ attempt = 0
  /\ fnCalls = 0
  /\ fnErrors = <<>>
  /\ retryResult = "none"

\* The delegator ids of table validator_delegators.
DelegatorNums == {1}

\* No handleTxAlerts call is under way and validator_delegators is empty.
NoFanout ==
  /\ txEvents = <<>>
  /\ txaPc = "none"
  /\ txaIdx = 0
  /\ newDelegatorsInTx = {}
  /\ vdelPools = [d \in DelegatorNums |-> {}]
  /\ dispatched = {}

\* No comparison on its own is under way.
NoMemoCompared == memoText = Empty /\ memoExpected = Empty /\ memoOk = "unset"

\* ========================================================= waiter registry
Roles == {"Delegator", "Validator"}
Ids == 1..MaxRegs

\* Map.get(key) === undefined
NoWaiter == [expectedMemo |-> Empty, id |-> 0, createdAt |-> 0]

delegatorWaiters == waiters["Delegator"]
validatorWaiters == waiters["Validator"]

\* First WAITER_TTL_MIN: the default of TXL_WAITER_TTL_MINUTES.
WAITER_TTL_MIN == 20
Max(a, b) == IF a >= b THEN a ELSE b
WAITER_TTL_MS == Max(1, WAITER_TTL_MIN) * 60 * 1000
\* The clock is read once per TTL: ages 0, TTL, 2 * TTL, ...
TickMs == WAITER_TTL_MS

\* Registrations, transactions and clock readings so far, and the events
\* handled by the fan-out that is running.
Spent == (nextId - 1) + txDone + ((now \div TickMs) - 1) + pb.ev

\* No processBlock running.
IdlePb == [pc |-> "idle", left |-> 0, hasHash |-> FALSE, sender |-> Empty,
           key |-> Empty, hasD |-> FALSE, hasV |-> FALSE, memo |-> Empty,
           inflight |-> 0, overdue |-> FALSE, threw |-> "no", cli |-> 0,
           fails |-> 0,
           ev |-> 0, evFail |-> 0]

\* No call of a register wrapper: `unsubscribe` is bound to registration
\* `reg` once the wrapper's `then` has run (0: still `() => {}`).
NoWrapper == [state |-> "none", role |-> "none", addr |-> Empty, memo |-> Empty,
              reg |-> 0, cancelled |-> FALSE]

InitRegistry ==
  /\ wrappers = [i \in Ids |-> NoWrapper]
  /\ waiters = [r \in Roles |-> [k \in KeySpace |-> NoWaiter]]
  /\ wrongMemoNotifier = [r \in Roles |-> FALSE]
  /\ expiredNotifier = [r \in Roles |-> FALSE]
  /\ now = TickMs
  /\ nextId = 1
  /\ pb = IdlePb
  /\ txDone = 0
  /\ succ = [i \in Ids |-> 0]
  /\ wrong = [i \in Ids |-> 0]
  /\ expired = [i \in Ids |-> 0]
  /\ regs = [i \in Ids |-> [role |-> "none", key |-> Empty, memo |-> Empty]]

\* Map.size > 0
MapNonEmpty(m) == \E k \in KeySpace : m[k] # NoWaiter
anyWaiters_always == TRUE
anyWaiters == MapNonEmpty(delegatorWaiters) \/ MapNonEmpty(validatorWaiters)

\* set{Delegator,Validator}WrongMemoNotifier(fn) with a function.
SetWrongMemoNotifier(role) ==
  /\ ~wrongMemoNotifier[role]
  /\ wrongMemoNotifier' = [wrongMemoNotifier EXCEPT ![role] = TRUE]
  /\ UNCHANGED <<waiters, expiredNotifier, now, nextId, pb, txDone, succ,
                 wrong, expired, regs>>
  /\ UNCHANGED <<memoVars, retryVars, wrapperVars, fanoutVars, streamVars, bucketVars, commissionVars>>

\* set{Delegator,Validator}WaiterExpiredNotifier(fn) with a function.  The
\* verification flows install it right after the wrong-memo notifier
\* (roles/validatorVerification.js:376-377, delegatorVerification.js:369-370).
SetWaiterExpiredNotifier(role) ==
  /\ wrongMemoNotifier[role]
  /\ ~expiredNotifier[role]
  /\ expiredNotifier' = [expiredNotifier EXCEPT ![role] = TRUE]
  /\ UNCHANGED <<waiters, wrongMemoNotifier, now, nextId, pb, txDone, succ,
                 wrong, expired, regs>>
  /\ UNCHANGED <<memoVars, retryVars, wrapperVars, fanoutVars, streamVars, bucketVars, commissionVars>>

\* `const key = normAddr(accountAddress)` / `normAddr(validatorAddress)`
RegisterKey_raw(addr) == addr
RegisterKey(addr) == normAddr(addr)

\* register{Delegator,Validator}MemoWaiter: Map.set under the normalized
\* address; the returned closure deletes that key.  A verification flow
\* registers only after it has installed the notifiers of its role.
Register(role, addr, memo) ==
  /\ nextId <= MaxRegs
  /\ Spent + 1 <= MaxOps
  /\ wrongMemoNotifier[role] /\ expiredNotifier[role]
  /\ LET key == RegisterKey(addr) IN
       /\ waiters' = [waiters EXCEPT ![role][key] =
                        [expectedMemo |-> memo, id |-> nextId, createdAt |-> now]]
       /\ regs' = [regs EXCEPT ![nextId] =
                     [role |-> role, key |-> key, memo |-> memo]]
  /\ nextId' = nextId + 1
  /\ UNCHANGED <<wrongMemoNotifier, expiredNotifier, now, pb, txDone, succ,
                 wrong, expired>>
  /\ UNCHANGED <<memoVars, retryVars, wrapperVars, fanoutVars, streamVars, bucketVars, commissionVars>>

\* The closure returned by registration id is called: Map.delete(key).
Cancel(id) ==
  /\ regs[id].role \in Roles
  /\ LET role == regs[id].role
         key == regs[id].key IN
       /\ waiters[role][key] # NoWaiter
       /\ waiters' = [waiters EXCEPT ![role][key] = NoWaiter]
  /\ UNCHANGED <<wrongMemoNotifier, expiredNotifier, now, nextId, pb, txDone,
                 succ, wrong, expired, regs>>
  /\ UNCHANGED <<memoVars, retryVars, wrapperVars, fanoutVars, streamVars, bucketVars, commissionVars>>

\* `now - (w.createdAt || now) > WAITER_TTL_MS`
IsExpired_atTtl(t, w) ==
  t - (IF w.createdAt # 0 THEN w.createdAt ELSE t) >= WAITER_TTL_MS
IsExpired(t, w) ==
  t - (IF w.createdAt # 0 THEN w.createdAt ELSE t) > WAITER_TTL_MS

\* Waiters the prune pass deletes from the Map of a role.
ToPrune(role) ==
  {k \in KeySpace : waiters[role][k] # NoWaiter /\ IsExpired(now, waiters[role][k])}

\* A role's Map after the prune pass: `Map.delete(key)` for each expired one.
Pruned_keep(role) == waiters[role]
Pruned(role) ==
  [k \in KeySpace |-> IF k \in ToPrune(role) THEN NoWaiter ELSE waiters[role][k]]

\* pruneWaiters, the setInterval callback: both Maps in one synchronous pass.
Prune ==
  LET gone == UNION {{waiters[r][k].id : k \in ToPrune(r)} : r \in Roles}
      told == UNION {{waiters[r][k].id : k \in ToPrune(r)} :
                       r \in {q \in Roles : expiredNotifier[q]}}
  IN /\ gone # {}
     /\ waiters' = [r \in Roles |-> Pruned(r)]
     /\ expired' = [i \in Ids |-> IF i \in told THEN expired[i] + 1 ELSE expired[i]]
     /\ UNCHANGED <<wrongMemoNotifier, expiredNotifier, now, nextId, pb, txDone,
                    succ, wrong, regs>>
     /\ UNCHANGED <<memoVars, retryVars, wrapperVars, fanoutVars, streamVars, bucketVars, commissionVars>>

\* Time passes.
Tick ==
  /\ now < (1 + MaxTicks) * TickMs
  /\ Spent + 1 <= MaxOps
  /\ now' = now + TickMs
  /\ UNCHANGED <<waiters, wrongMemoNotifier, expiredNotifier, nextId, pb,
                 txDone, succ, wrong, expired, regs>>
  /\ UNCHANGED <<memoVars, retryVars, wrapperVars, fanoutVars, streamVars, bucketVars, commissionVars>>

\* ============================================ processBlock: memo correlation
\* `memo.text && normMemo(memo.text) === normMemo(w.expectedMemo)`
MemoMatches_any(text, expectedMemo) == text # Empty
MemoMatches(text, expectedMemo) ==
  text # Empty /\ normMemo(text) = normMemo(expectedMemo)

\* The comparison of lines 1105 and 1133 applied to one pair of memos.
CompareMemos ==
  /\ memoOk = "unset"
  /\ memoOk' = IF MemoMatches(memoText, memoExpected) THEN "ok" ELSE "no"
  /\ UNCHANGED <<memoText, memoExpected>>
  /\ UNCHANGED <<streamVars, waiterVars, bucketVars, commissionVars, retryVars,
                 wrapperVars, fanoutVars>>

\* `else if (memo.text && <role>WrongMemoNotifier)`
NotifyWrong_noMemo(text, notifier) == notifier
NotifyWrong(text, notifier) == text # Empty /\ notifier

\* memoFromCLI: `lines[idx + 1].trim() || null`
CliMemoText(line) == Trim(line)

\* The `finally` after onSuccess: Map.delete(key).
DeleteKey_keep(m, key) == m
DeleteKey(m, key) == [m EXCEPT ![key] = NoWaiter]

\* `try { await w.onSuccess?.(...) } finally { Map.delete(key) }`: the Map
\* once onSuccess has settled, resolved or rejected.
AfterSuccess_noFinally(m, key, threw) == IF threw THEN m ELSE DeleteKey(m, key)
AfterSuccess(m, key, threw) == DeleteKey(m, key)

\* An exception raised while a transaction is correlated reaches the catch
\* around the transaction loop (line 1193): the other l.left - 1 transactions
\* of the block are not read.
Abort(l) ==
  pb' = [l EXCEPT !.pc = "special", !.threw = "tx", !.left = l.left - 1,
                  !.inflight = 0, !.overdue = FALSE, !.sender = Empty,
                  !.hasHash = FALSE,
                  !.cli = 0]

\* onSuccess rejected: the `try { await } finally { delete }` has no catch,
\* so the rejection reaches the catch around the transaction loop as well.
Rejected(l) ==
  pb' = [l EXCEPT !.pc = "special", !.threw = "cb", !.left = l.left - 1,
                  !.inflight = 0, !.overdue = FALSE, !.sender = Empty,
                  !.hasHash = FALSE,
                  !.cli = 0]

\* Correlation of the transaction is over (line 1160).
AtAlerts(l) ==
  [l EXCEPT !.pc = "alerts", !.inflight = 0, !.overdue = FALSE, !.sender = Empty]

\* Lines 1131-1158: the validator waiter of the sender, up to the first await.
CorrelateV(l) ==
  LET vw == validatorWaiters[l.key] IN
  IF l.hasV /\ vw = NoWaiter /\ l.memo # Empty
    THEN Abort(l) /\ UNCHANGED <<succ, wrong>>
  ELSE IF l.hasV /\ MemoMatches(l.memo, vw.expectedMemo)
    THEN /\ succ' = [succ EXCEPT ![vw.id] = @ + 1]
         /\ pb' = [l EXCEPT !.pc = "await_v_success", !.inflight = vw.id,
                             !.overdue = IsExpired(now, vw)]
         /\ UNCHANGED wrong
  ELSE IF l.hasV /\ NotifyWrong(l.memo, wrongMemoNotifier["Validator"])
    THEN /\ wrong' = [wrong EXCEPT ![vw.id] = @ + 1]
         /\ pb' = [l EXCEPT !.pc = "await_v_wrong", !.inflight = vw.id]
         /\ UNCHANGED succ
  ELSE /\ pb' = AtAlerts(l)
       /\ UNCHANGED <<succ, wrong>>

\* Lines 1103-1129: the delegator waiter of the sender, up to the first await.
CorrelateD(l) ==
  LET w == delegatorWaiters[l.key] IN
  IF l.hasD /\ w = NoWaiter /\ l.memo # Empty
    THEN Abort(l) /\ UNCHANGED <<succ, wrong>>
  ELSE IF l.hasD /\ MemoMatches(l.memo, w.expectedMemo)
    THEN /\ succ' = [succ EXCEPT ![w.id] = @ + 1]
         /\ pb' = [l EXCEPT !.pc = "await_d_success", !.inflight = w.id,
                             !.overdue = IsExpired(now, w)]
         /\ UNCHANGED wrong
  ELSE IF l.hasD /\ NotifyWrong(l.memo, wrongMemoNotifier["Delegator"])
    THEN /\ wrong' = [wrong EXCEPT ![w.id] = @ + 1]
         /\ pb' = [l EXCEPT !.pc = "await_d_wrong", !.inflight = w.id]
         /\ UNCHANGED succ
  ELSE CorrelateV(l)

\* Lines 1084-1101: key and the two `has` tests; the memo is read only when
\* the sender has a waiter and the transaction has a hash.
AfterSender(l) ==
  LET key == normAddr(l.sender)
      hasD == l.sender # Empty /\ delegatorWaiters[key] # NoWaiter
      hasV == l.sender # Empty /\ validatorWaiters[key] # NoWaiter
      m == [l EXCEPT !.key = key, !.hasD = hasD, !.hasV = hasV, !.memo = Empty,
                     !.sender = Empty, !.cli = 0]
  IN IF (hasD \/ hasV) /\ l.hasHash
       THEN /\ pb' = [m EXCEPT !.pc = "await_memo", !.cli = 1]
            /\ UNCHANGED <<succ, wrong>>
       ELSE CorrelateD(m)

\* `await processBlock(grpcClient, hash, h)` (line 1280): where the loop of
\* the listener is while processBlock runs.
DuringProcessBlock_unawaited == "await_block"
DuringProcessBlock == "main_block"

\* The listener receives the next block, of n transactions, from the stream
\* and calls processBlock for it (lines 1253-1280, without a gap).
StartBlock(n) ==
  /\ pb.pc = "idle"
  /\ pc = "await_block"
  /\ cur' = nextMin
  /\ nextMin' = nextMin + 1
  /\ processed' = Append(processed, nextMin)
  /\ pc' = DuringProcessBlock
  /\ txDone + n <= MaxTx
  /\ Spent + n <= MaxOps
  /\ txDone' = txDone + n
  /\ pb' = [IdlePb EXCEPT !.pc = "next", !.left = n]
  /\ UNCHANGED <<waiters, wrongMemoNotifier, expiredNotifier, now, nextId,
                 succ, wrong, expired, regs>>
  /\ UNCHANGED <<lastHeight, hh, streamStart, attempts, fetchFailed,
                 fetchEmpty, errors>>
  /\ UNCHANGED <<probe, memoVars, retryVars, wrapperVars, fanoutVars, bucketVars, commissionVars>>

\* The transaction stream yields an item: lines 1072-1082.
NextTx(hasHash, streamSender) ==
  /\ pb.pc = "next"
  /\ LET l == [pb EXCEPT !.hasHash = hasHash, !.sender = streamSender,
                         !.key = Empty, !.hasD = FALSE, !.hasV = FALSE,
                         !.memo = Empty, !.inflight = 0, !.cli = 0,
                         !.fails = 0]
     IN IF anyWaiters /\ streamSender = Empty /\ hasHash
          THEN /\ pb' = [l EXCEPT !.pc = "await_sender", !.cli = 1]
               /\ UNCHANGED <<succ, wrong>>
          ELSE AfterSender(l)
  /\ UNCHANGED <<waiters, wrongMemoNotifier, expiredNotifier, now, nextId,
                 txDone, expired, regs>>
  /\ UNCHANGED <<memoVars, retryVars, wrapperVars, fanoutVars, streamVars, bucketVars, commissionVars>>

\* The transaction stream throws: caught at line 1193.
TxStreamError ==
  /\ pb.pc = "next"
  /\ pb' = [IdlePb EXCEPT !.pc = "special", !.threw = "stream", !.left = pb.left]
  /\ UNCHANGED <<waiters, wrongMemoNotifier, expiredNotifier, now, nextId,
                 txDone, succ, wrong, expired, regs>>
  /\ UNCHANGED <<memoVars, retryVars, wrapperVars, fanoutVars, streamVars, bucketVars, commissionVars>>

\* senderFromCLI: execFile called back with an error, `resolve(null)`.
SenderFromCLIFails ==
  /\ pb.pc = "await_sender"
  /\ AfterSender([pb EXCEPT !.sender = Empty, !.fails = @ + 1])
  /\ UNCHANGED <<waiters, wrongMemoNotifier, expiredNotifier, now, nextId,
                 txDone, expired, regs>>
  /\ UNCHANGED <<memoVars, retryVars, wrapperVars, fanoutVars, streamVars, bucketVars, commissionVars>>

\* senderFromCLI resolved with s (<<>>: the output named no sender).
SenderFromCLIReturns(s) ==
  /\ pb.pc = "await_sender"
  /\ AfterSender([pb EXCEPT !.sender = s])
  /\ UNCHANGED <<waiters, wrongMemoNotifier, expiredNotifier, now, nextId,
                 txDone, expired, regs>>
  /\ UNCHANGED <<memoVars, retryVars, wrapperVars, fanoutVars, streamVars, bucketVars, commissionVars>>

\* memoFromCLI: execFile called back with an error,
\* `resolve({ text: null, hex: null })`.
MemoFromCLIFails ==
  /\ pb.pc = "await_memo"
  /\ CorrelateD([pb EXCEPT !.memo = Empty, !.cli = 0, !.fails = @ + 1])
  /\ UNCHANGED <<waiters, wrongMemoNotifier, expiredNotifier, now, nextId,
                 txDone, expired, regs>>
  /\ UNCHANGED <<memoVars, retryVars, wrapperVars, fanoutVars, streamVars, bucketVars, commissionVars>>

\* memoFromCLI resolved with the line after "Transfer memo:".
MemoFromCLIReturns(line) ==
  /\ pb.pc = "await_memo"
  /\ CorrelateD([pb EXCEPT !.memo = CliMemoText(line), !.cli = 0])
  /\ UNCHANGED <<waiters, wrongMemoNotifier, expiredNotifier, now, nextId,
                 txDone, expired, regs>>
  /\ UNCHANGED <<memoVars, retryVars, wrapperVars, fanoutVars, streamVars, bucketVars, commissionVars>>

\* The delegator waiter's onSuccess settled; `finally` deletes the key.
DSuccessReturns(threw) ==
  /\ pb.pc = "await_d_success"
  /\ waiters' = [waiters EXCEPT
                   !["Delegator"] = AfterSuccess(delegatorWaiters, pb.key, threw)]
  /\ IF threw THEN Rejected(pb) /\ UNCHANGED <<succ, wrong>>
     ELSE CorrelateV([pb EXCEPT !.inflight = 0, !.overdue = FALSE])
  /\ UNCHANGED <<wrongMemoNotifier, expiredNotifier, now, nextId, txDone,
                 expired, regs>>
  /\ UNCHANGED <<memoVars, retryVars, wrapperVars, fanoutVars, streamVars, bucketVars, commissionVars>>

\* The delegator wrong-memo notifier settled (a rejection is swallowed).
DWrongReturns ==
  /\ pb.pc = "await_d_wrong"
  /\ CorrelateV([pb EXCEPT !.inflight = 0, !.overdue = FALSE])
  /\ UNCHANGED <<waiters, wrongMemoNotifier, expiredNotifier, now, nextId,
                 txDone, expired, regs>>
  /\ UNCHANGED <<memoVars, retryVars, wrapperVars, fanoutVars, streamVars, bucketVars, commissionVars>>

\* The validator waiter's onSuccess settled; `finally` deletes the key.
VSuccessReturns(threw) ==
  /\ pb.pc = "await_v_success"
  /\ waiters' = [waiters EXCEPT
                   !["Validator"] = AfterSuccess(validatorWaiters, pb.key, threw)]
  /\ IF threw THEN Rejected(pb)
     ELSE pb' = AtAlerts(pb)
  /\ UNCHANGED <<wrongMemoNotifier, expiredNotifier, now, nextId, txDone,
                 succ, wrong, expired, regs>>
  /\ UNCHANGED <<memoVars, retryVars, wrapperVars, fanoutVars, streamVars, bucketVars, commissionVars>>

\* The validator wrong-memo notifier settled (a rejection is swallowed).
VWrongReturns ==
  /\ pb.pc = "await_v_wrong"
  /\ pb' = AtAlerts(pb)
  /\ UNCHANGED <<waiters, wrongMemoNotifier, expiredNotifier, now, nextId,
                 txDone, succ, wrong, expired, regs>>
  /\ UNCHANGED <<memoVars, retryVars, wrapperVars, fanoutVars, streamVars, bucketVars, commissionVars>>

\* Lines 1160-1191: the transaction's events are fanned out; next item.
AlertsDone ==
  /\ pb.pc = "alerts"
  /\ pb' = IF pb.left > 1
             THEN [IdlePb EXCEPT !.pc = "next", !.left = pb.left - 1]
             ELSE [IdlePb EXCEPT !.pc = "special"]
  /\ UNCHANGED <<waiters, wrongMemoNotifier, expiredNotifier, now, nextId,
                 txDone, succ, wrong, expired, regs>>
  /\ UNCHANGED <<memoVars, retryVars, wrapperVars, fanoutVars, streamVars, bucketVars, commissionVars>>

\* Where the fan-out goes after the handlers of one event settled: each
\* handler call is awaited inside its own try/catch (lines 525-990 and
\* 992-1060, and again around handleTxAlerts and handleSpecialAlerts at
\* lines 1171-1175 and 1202-1206), so a throwing handler is logged and the
\* loop goes on; evFail is the number of the last event whose handler threw.
AfterHandler_abort(l, threw) ==
  IF threw THEN [l EXCEPT !.ev = @ + 1, !.evFail = l.ev + 1,
                          !.pc = "special", !.threw = "tx"]
  ELSE [l EXCEPT !.ev = @ + 1]
AfterHandler(l, threw) ==
  [l EXCEPT !.ev = @ + 1, !.evFail = IF threw THEN l.ev + 1 ELSE @]

\* handleTxAlerts: the handlers of one more event of the transaction settle.
HandleEvent(threw) ==
  /\ pb.pc = "alerts"
  /\ pb.hasHash
  /\ pb.ev < MaxEvents
  /\ Spent + 1 <= MaxOps
  /\ pb' = AfterHandler(pb, threw)
  /\ UNCHANGED <<waiters, wrongMemoNotifier, expiredNotifier, now, nextId,
                 txDone, succ, wrong, expired, regs>>
  /\ UNCHANGED <<memoVars, retryVars, wrapperVars, fanoutVars, streamVars, bucketVars, commissionVars>>

\* handleSpecialAlerts: the handlers of one more special event settle.
HandleSpecial(threw) ==
  /\ pb.pc = "special"
  /\ pb.ev < MaxEvents
  /\ Spent + 1 <= MaxOps
  /\ pb' = AfterHandler(pb, threw)
  /\ UNCHANGED <<waiters, wrongMemoNotifier, expiredNotifier, now, nextId,
                 txDone, succ, wrong, expired, regs>>
  /\ UNCHANGED <<memoVars, retryVars, wrapperVars, fanoutVars, streamVars, bucketVars, commissionVars>>

\* lastHeight once the special-event stream of block h is over: an exception
\* of the stream is caught at line 1224, processBlock returns either way and
\* the listener sets `lastHeight = h` (line 1281).
LastHeightAfter_rejected(threw, lh, h) == IF threw THEN lh ELSE h
LastHeightAfter(threw, lh, h) == h

\* Lines 1197-1226: the special-event stream ended, or threw; processBlock
\* returns.
SpecialDone(threw) ==
  /\ pb.pc = "special"
  /\ pb' = IdlePb
  /\ pc = "main_block"
  /\ lastHeight' = LastHeightAfter(threw, lastHeight, cur)
  /\ pc' = "await_block"
  /\ UNCHANGED <<waiters, wrongMemoNotifier, expiredNotifier, now, nextId,
                 txDone, succ, wrong, expired, regs>>
  /\ UNCHANGED <<cur, hh, nextMin, streamStart, processed, attempts,
                 fetchFailed, fetchEmpty, errors>>
  /\ UNCHANGED <<probe, memoVars, retryVars, wrapperVars, fanoutVars, bucketVars, commissionVars>>

NextWaiters ==
  \/ \E r \in Roles : SetWrongMemoNotifier(r)
  \/ \E r \in Roles : SetWaiterExpiredNotifier(r)
  \/ \E r \in Roles, a \in RegAddrs, m \in ExpectedMemos : Register(r, a, m)
  \/ \E i \in Ids : Cancel(i)
  \/ Prune
  \/ Tick
  \/ \E n \in 1..MaxTx : StartBlock(n)
  \/ \E hs \in BOOLEAN, s \in SenderInputs \cup {Empty} : NextTx(hs, s)
  \/ TxStreamError
  \/ SenderFromCLIFails
  \/ \E s \in SenderInputs \cup {Empty} : SenderFromCLIReturns(s)
  \/ MemoFromCLIFails
  \/ \E line \in MemoLines : MemoFromCLIReturns(line)
  \/ \E t \in BOOLEAN : DSuccessReturns(t)
  \/ DWrongReturns
  \/ \E t \in BOOLEAN : VSuccessReturns(t)
  \/ VWrongReturns
  \/ \E t \in BOOLEAN : HandleEvent(t)
  \/ AlertsDone
  \/ \E t \in BOOLEAN : HandleSpecial(t)
  \/ \E t \in BOOLEAN : SpecialDone(t)

\* ============================== aggregation buckets (modules/alerts.js)
\* handleTxAlerts runs only for a transaction that has a hash (line 1161 of
\* the listener) and passes that hash to every handler below, with ids that
\* are not empty.
\* The transactions in the order processBlock hands them to handleTxAlerts.
TxOrder == <<"t1", "t2">>
TxHashes == Range(TxOrder)
DelegatorIds == {"d1", "d2"}
BakerIds == {"v1", "v2"}
\* String(t.poolId) of the target-set event.
PoolIds == {"v1"}
Accounts == {"a1"}
BlockHashes == {"b1"}
\* toNum(ev.bakingRewardCommission), toNum(ev.transactionFeeCommission).
Rates == {1}
\* String(ev.newStake) of the stake-increased event.
Stakes == {5}

\* null of a string-valued field.
Null == "null"
\* `stakeMicro: null`.
NoStake == -1
\* `baking: undefined`, `txFee: undefined`, and a commission passed as null.
NoRate == -1
\* `timer: null`.
NoTimer == 0
\* Map.get(key) of a key without entry.
NoBucket == 0

AGG_WINDOW_MS == 800
NEW_DELEGATOR_AGG_WINDOW_MS == 800

\* The event loop's time is followed in half windows.
ClockStep == AGG_WINDOW_MS \div 2

\* Handler calls made and half windows passed so far.
BucketOps == bevents + (clock \div ClockStep)

bucketKeyForNewDelegator(txHash, delegatorId) ==
  IF txHash # Null THEN <<"tx", txHash>> ELSE <<"dg", delegatorId>>

\* `${validatorId}:${txHash}`.
commissionKey(validatorId, txHash) == <<validatorId, txHash>>

NdKeys == {bucketKeyForNewDelegator(h, d) : h \in TxHashes, d \in DelegatorIds}
CmKeys == {commissionKey(v, h) : v \in BakerIds, h \in TxHashes}

\* The object literal of getOrMakeNewDelegatorBucket.
NewDelegatorBucket ==
  [sawAdded |-> FALSE, delegatorId |-> Null, account |-> Null,
   validatorId |-> Null, stakeMicro |-> NoStake, txHash |-> Null,
   timer |-> NoTimer]

\* The object literal of handleCommissionUpdate.
CommissionBucket(validatorId, txHash) ==
  [validatorId |-> validatorId, txHash |-> txHash, blockHash |-> Null,
   baking |-> NoRate, txFee |-> NoRate, timer |-> NoTimer]

\* What the history keeps of a bucket object created at time t.
NewHist(t, armed) ==
  [first |-> t, last |-> t, inserts |-> 1, armed |-> armed, runs |-> 0,
   flushedAt |-> {}, query |-> "none"]

\* The table validator_commissions without row for the validator.
NoRow ==
  [exists |-> FALSE, baking_rate |-> NoRate, transaction_fee_rate |-> NoRate,
   last_notified_baking_rate |-> NoRate,
   last_notified_transaction_fee_rate |-> NoRate]

\* flushCommissionBucket not started: its position, res.rowCount and the
\* locals prevBaking, prevTxFee, needUpdateBaking, needUpdateTxFee (lines
\* 219-222), recipients.length; doneBefore is history, the flushes that had
\* returned when this one read the table.
IdleFlush ==
  [pc |-> "none", rowCount |-> 0, prevBaking |-> NoRate, prevTxFee |-> NoRate,
   needUpdateBaking |-> FALSE, needUpdateTxFee |-> FALSE, recipients |-> 0,
   doneBefore |-> {}]

InitBuckets ==
  /\ newDelegatorBuckets = [k \in NdKeys |-> NoBucket]
  /\ commissionBuckets = [k \in CmKeys |-> NoBucket]
  /\ ndObjs = <<>>
  /\ cmObjs = <<>>
  /\ timers = {}
  /\ nextTimer = 1
  /\ clock = 0
  /\ flushing = {}
  /\ newDelegatorJoined = <<>>
  /\ bevents = 0
  /\ ndHist = <<>>
  /\ cmHist = <<>>
  /\ alertsTx = 0
  /\ validator_commissions = [v \in BakerIds |-> NoRow]
  /\ cmFlush = [i \in 1..MaxBucketEvents |-> IdleFlush]
  /\ commissionChanged = <<>>

\* The bucket object the handler works on: the entry of the Map, or a new
\* object.
getOrMakeNewDelegatorBucket(key) ==
  IF newDelegatorBuckets[key] # NoBucket
    THEN ndObjs[newDelegatorBuckets[key]]
    ELSE NewDelegatorBucket

\* The handler is called by handleTxAlerts for an event of the transaction it
\* is at, or of a later one: processBlock awaits handleTxAlerts transaction
\* by transaction (line 1171).
EventOf(txHash) ==
  \E i \in DOMAIN TxOrder :
    /\ TxOrder[i] = txHash
    /\ i >= alertsTx
    /\ alertsTx' = i

\* `if (!b.timer)`.
ArmTimer_always(b) == TRUE
ArmTimer(b) == b.timer = NoTimer

\* Map.delete(key).
DeleteBucket_keep(m, key) == m
DeleteBucket(m, key) == [m EXCEPT ![key] = NoBucket]

\* setTimeout(() => flush(key), window): the callback holds the key only;
\* armedBy is history, the object the timer was armed for.
Timeout(kind, key, window, obj) ==
  [kind |-> kind, key |-> key, due |-> clock + window, id |-> nextTimer,
   armedBy |-> obj]

\* The event loop runs the callback of a timer once its delay has passed
\* (unref() only keeps the timer from holding the process open).
Due_never(t) == FALSE
Due(t) == clock >= t.due

\* The tail every new-delegator handler shares: b is the bucket after the
\* handler's assignments; the Map holds it, and its timer is armed if it has
\* none.
PutNewDelegator(txHash, key, b) ==
  LET fresh == newDelegatorBuckets[key] = NoBucket
      id == IF fresh THEN Len(ndObjs) + 1 ELSE newDelegatorBuckets[key]
      arm == ArmTimer(b)
      b2 == IF arm THEN [b EXCEPT !.timer = nextTimer] ELSE b
  IN /\ bevents < MaxBucketEvents
     /\ BucketOps < MaxBucketOps
     /\ EventOf(txHash)
     /\ bevents' = bevents + 1
     /\ newDelegatorBuckets' = [newDelegatorBuckets EXCEPT ![key] = id]
     /\ ndObjs' = IF fresh THEN Append(ndObjs, b2)
                           ELSE [ndObjs EXCEPT ![id] = b2]
     /\ ndHist' = IF fresh
                    THEN Append(ndHist, NewHist(clock, IF arm THEN 1 ELSE 0))
                    ELSE [ndHist EXCEPT ![id].last = clock,
                                        ![id].inserts = @ + 1,
                                        ![id].armed = @ + (IF arm THEN 1 ELSE 0)]
     /\ timers' = IF arm
                    THEN timers \cup {Timeout("newDelegator", key,
                                              NEW_DELEGATOR_AGG_WINDOW_MS, id)}
                    ELSE timers
     /\ nextTimer' = IF arm THEN nextTimer + 1 ELSE nextTimer
     /\ UNCHANGED <<commissionBuckets, cmObjs, cmHist, clock, flushing,
                    newDelegatorJoined>>
     /\ UNCHANGED <<memoVars, retryVars, wrapperVars, fanoutVars, streamVars, waiterVars, commissionVars>>

handleNewDelegator_DelegationAdded(delegatorId, account, txHash) ==
  LET key == bucketKeyForNewDelegator(txHash, delegatorId)
      b == getOrMakeNewDelegatorBucket(key)
  IN PutNewDelegator(txHash, key, [b EXCEPT !.sawAdded = TRUE,
                                    !.delegatorId = delegatorId,
                                    !.account = account,
                                    !.txHash = IF txHash # Null THEN txHash ELSE @])

handleNewDelegator_TargetSet(delegatorId, bakerId, txHash) ==
  LET key == bucketKeyForNewDelegator(txHash, delegatorId)
      b == getOrMakeNewDelegatorBucket(key)
  IN PutNewDelegator(txHash, key, [b EXCEPT !.delegatorId = delegatorId,
                                    !.validatorId = bakerId,
                                    !.txHash = IF txHash # Null THEN txHash ELSE @])

handleNewDelegator_StakeIncreased(delegatorId, newStakeMicro, txHash) ==
  LET key == bucketKeyForNewDelegator(txHash, delegatorId)
      b == getOrMakeNewDelegatorBucket(key)
  IN PutNewDelegator(txHash, key, [b EXCEPT !.delegatorId = delegatorId,
                                    !.stakeMicro = newStakeMicro,
                                    !.txHash = IF txHash # Null THEN txHash ELSE @])

\* handleCommissionUpdate for a transaction with a hash (lines 554-568): one
\* of the two commissions is a number, the other is null.
handleCommissionUpdate(validatorId, bakingRewardCommission, transactionFeeCommission, blockHash, txHash) ==
  LET key == commissionKey(validatorId, txHash)
      fresh == commissionBuckets[key] = NoBucket
      id == IF fresh THEN Len(cmObjs) + 1 ELSE commissionBuckets[key]
      b0 == IF fresh THEN CommissionBucket(validatorId, txHash) ELSE cmObjs[id]
      b == [b0 EXCEPT
              !.blockHash = IF blockHash # Null THEN blockHash ELSE @,
              !.baking = IF bakingRewardCommission # NoRate
                           THEN bakingRewardCommission ELSE @,
              !.txFee = IF transactionFeeCommission # NoRate
                          THEN transactionFeeCommission ELSE @]
      arm == ArmTimer(b)
      b2 == IF arm THEN [b EXCEPT !.timer = nextTimer] ELSE b
  IN /\ bevents < MaxBucketEvents
     /\ BucketOps < MaxBucketOps
     /\ EventOf(txHash)
     /\ bevents' = bevents + 1
     /\ commissionBuckets' = [commissionBuckets EXCEPT ![key] = id]
     /\ cmObjs' = IF fresh THEN Append(cmObjs, b2)
                           ELSE [cmObjs EXCEPT ![id] = b2]
     /\ cmHist' = IF fresh
                    THEN Append(cmHist, NewHist(clock, IF arm THEN 1 ELSE 0))
                    ELSE [cmHist EXCEPT ![id].last = clock,
                                        ![id].inserts = @ + 1,
                                        ![id].armed = @ + (IF arm THEN 1 ELSE 0)]
     /\ timers' = IF arm
                    THEN timers \cup {Timeout("commission", key,
                                              AGG_WINDOW_MS, id)}
                    ELSE timers
     /\ nextTimer' = IF arm THEN nextTimer + 1 ELSE nextTimer
     /\ UNCHANGED <<newDelegatorBuckets, ndObjs, ndHist, clock, flushing,
                    newDelegatorJoined>>
     /\ UNCHANGED <<memoVars, retryVars, wrapperVars, fanoutVars, streamVars, waiterVars, commissionVars>>

\* Number(b.stakeMicro): Number(null) is 0.
NumberOf(stakeMicro) == IF stakeMicro = NoStake THEN 0 ELSE stakeMicro

\* The guard of flushNewDelegatorBucket (line 1210), negated: every number
\* of the model is finite.
NewDelegatorComplete_allThree(b) ==
  /\ b.sawAdded
  /\ b.validatorId # Null
  /\ b.account # Null
  /\ b.stakeMicro # NoStake
NewDelegatorComplete(b) ==
  /\ b.sawAdded
  /\ b.validatorId # Null
  /\ b.account # Null
  /\ NumberOf(b.stakeMicro) \in Int

\* The timer's callback runs flushNewDelegatorBucket(key) up to its first
\* await or return (lines 1205-1219).
FlushNewDelegatorBucket(t) ==
  /\ t \in timers
  /\ t.kind = "newDelegator"
  /\ Due(t)
  /\ timers' = timers \ {t}
  /\ LET id == newDelegatorBuckets[t.key] IN
       IF id = NoBucket
         THEN UNCHANGED <<newDelegatorBuckets, ndHist, flushing>>
         ELSE /\ newDelegatorBuckets' = DeleteBucket(newDelegatorBuckets, t.key)
              /\ ndHist' = [ndHist EXCEPT
                             ![id].runs = @ + 1,
                             ![id].flushedAt = @ \cup {clock},
                             ![id].query = IF NewDelegatorComplete(ndObjs[id])
                                             THEN "pending" ELSE @]
              /\ flushing' = IF NewDelegatorComplete(ndObjs[id])
                               THEN flushing \cup {id} ELSE flushing
  /\ UNCHANGED <<commissionBuckets, ndObjs, cmObjs, cmHist, nextTimer, clock,
                 newDelegatorJoined, bevents>>
  /\ UNCHANGED alertsTx
  /\ UNCHANGED <<memoVars, retryVars, wrapperVars, fanoutVars, streamVars, waiterVars, commissionVars>>

\* pool.query of flushNewDelegatorBucket resolves (lines 1216-1232): without
\* owner the flush ends, else the owner is sent the notification read from b.
NewDelegatorOwners(id, rowCount) ==
  /\ id \in flushing
  /\ flushing' = flushing \ {id}
  /\ newDelegatorJoined' =
       IF rowCount = 0 THEN newDelegatorJoined
       ELSE Append(newDelegatorJoined,
                   [bucket |-> id,
                    poolId |-> ndObjs[id].validatorId,
                    account |-> ndObjs[id].account,
                    stakeMicro |-> NumberOf(ndObjs[id].stakeMicro),
                    txHash |-> ndObjs[id].txHash])
  /\ ndHist' = [ndHist EXCEPT ![id].query = IF rowCount = 0 THEN "empty"
                                                             ELSE "rows"]
  /\ UNCHANGED <<newDelegatorBuckets, commissionBuckets, ndObjs, cmObjs,
                 timers, nextTimer, clock, bevents, cmHist>>
  /\ UNCHANGED alertsTx
  /\ UNCHANGED <<memoVars, retryVars, wrapperVars, fanoutVars, streamVars, waiterVars, commissionVars>>

\* The timer's callback runs flushCommissionBucket(key) up to its first
\* await or return (lines 202-212).
FlushCommissionBucket(t) ==
  /\ t \in timers
  /\ t.kind = "commission"
  /\ Due(t)
  /\ timers' = timers \ {t}
  /\ LET id == commissionBuckets[t.key] IN
       IF id = NoBucket
         THEN UNCHANGED <<commissionBuckets, cmHist, cmFlush>>
         ELSE /\ commissionBuckets' = DeleteBucket(commissionBuckets, t.key)
              /\ cmHist' = [cmHist EXCEPT ![id].runs = @ + 1,
                                          ![id].flushedAt = @ \cup {clock}]
              /\ cmFlush' = [cmFlush EXCEPT ![id].pc =
                                IF cmObjs[id].baking = NoRate /\ cmObjs[id].txFee = NoRate
                                  THEN "done" ELSE "select"]
  /\ UNCHANGED <<newDelegatorBuckets, ndObjs, cmObjs, ndHist, nextTimer, clock,
                 flushing, newDelegatorJoined, bevents>>
  /\ UNCHANGED alertsTx
  /\ UNCHANGED <<validator_commissions, commissionChanged>>
  /\ UNCHANGED <<memoVars, retryVars, wrapperVars, fanoutVars, streamVars, waiterVars>>

\* Time passes in the event loop.
Advance ==
  /\ clock + ClockStep <= MaxClockSteps * ClockStep
  /\ BucketOps < MaxBucketOps
  /\ clock' = clock + ClockStep
  /\ UNCHANGED <<newDelegatorBuckets, commissionBuckets, ndObjs, cmObjs,
                 timers, nextTimer, flushing, newDelegatorJoined, bevents,
                 ndHist, cmHist>>
  /\ UNCHANGED alertsTx
  /\ UNCHANGED <<memoVars, retryVars, wrapperVars, fanoutVars, streamVars, waiterVars, commissionVars>>

NextBuckets ==
  \/ \E d \in DelegatorIds, a \in Accounts, h \in TxHashes :
       handleNewDelegator_DelegationAdded(d, a, h)
  \/ \E d \in DelegatorIds, v \in PoolIds, h \in TxHashes :
       handleNewDelegator_TargetSet(d, v, h)
  \/ \E d \in DelegatorIds, s \in Stakes, h \in TxHashes :
       handleNewDelegator_StakeIncreased(d, s, h)
  \/ \E v \in BakerIds, r \in Rates, bh \in BlockHashes, h \in TxHashes :
       handleCommissionUpdate(v, r, NoRate, bh, h)
  \/ \E v \in BakerIds, r \in Rates, bh \in BlockHashes, h \in TxHashes :
       handleCommissionUpdate(v, NoRate, r, bh, h)
  \/ \E t \in timers : FlushNewDelegatorBucket(t)
  \/ \E id \in flushing, n \in 0..1 : NewDelegatorOwners(id, n)
  \/ \E t \in timers : FlushCommissionBucket(t)
  \/ Advance

\* ================== flushCommissionBucket after its first await (alerts.js)
\* The rates the chain reports in the commission runs.
RatesAB == {1, 2}

\* `a ?? b` and COALESCE(a, b).
Coalesce_first(a, b) == a
Coalesce(a, b) == IF a # NoRate THEN a ELSE b

\* nearlyEqual(a, b, eps = 1e-9) of flushCommissionBucket: rates of the model
\* are whole numbers, so |a - b| < eps is a = b.
nearlyEqual_never(a, b) == FALSE
nearlyEqual(a, b) == IF a = NoRate \/ b = NoRate THEN FALSE ELSE a = b

\* The rate a reported commission is compared with: the last-notified column
\* of the row read by the SELECT (lines 246-253).
Compared_current(row, column) ==
  IF column = "baking" THEN row.baking_rate ELSE row.transaction_fee_rate
Compared(row, column) ==
  IF column = "baking" THEN row.last_notified_baking_rate
                       ELSE row.last_notified_transaction_fee_rate

\* baking_rate and transaction_fee_rate are NUMERIC NOT NULL (schema, lines
\* 21-28 of the SQL file): a row with a null rate is refused.
Violates(baking, txFee) == baking = NoRate \/ txFee = NoRate

\* VALUES ($1, $2, $3, CURRENT_TIMESTAMP, $2, $3).
Row(baking, txFee) ==
  [exists |-> TRUE, baking_rate |-> baking, transaction_fee_rate |-> txFee,
   last_notified_baking_rate |-> baking,
   last_notified_transaction_fee_rate |-> txFee]

\* The flushes that have returned.
Returned == {i \in DOMAIN cmObjs : cmFlush[i].pc = "done"}

\* The validator of a flushed bucket object.
ValidatorOf(id) == cmObjs[id].validatorId

\* roles/validatorVerification.js, lines 299-321: a verification seeds the
\* row of its validator with the rates of the pool, when there is none.
SeedCommissionRow(v, baking, txFee) ==
  /\ ~validator_commissions[v].exists
  /\ validator_commissions' = [validator_commissions EXCEPT ![v] = Row(baking, txFee)]
  /\ UNCHANGED <<cmFlush, commissionChanged>>
  /\ UNCHANGED <<memoVars, retryVars, wrapperVars, fanoutVars, streamVars, waiterVars, bucketVars>>

\* upsertCommissionRowCurrent, called by handleDelegationTargetChanged with
\* the rates of the pool status: a new row, or the current rates of the row.
upsertCommissionRowCurrent(v, baking, txFee) ==
  /\ bevents < MaxBucketEvents
  /\ BucketOps < MaxBucketOps
  /\ bevents' = bevents + 1
  /\ validator_commissions' =
       [validator_commissions EXCEPT ![v] =
          IF @.exists THEN [@ EXCEPT !.baking_rate = baking,
                                     !.transaction_fee_rate = txFee]
                      ELSE Row(baking, txFee)]
  /\ UNCHANGED <<cmFlush, commissionChanged>>
  /\ UNCHANGED <<newDelegatorBuckets, commissionBuckets, ndObjs, cmObjs, timers,
                 nextTimer, clock, flushing, newDelegatorJoined, ndHist, cmHist,
                 alertsTx>>
  /\ UNCHANGED <<memoVars, retryVars, wrapperVars, fanoutVars, streamVars, waiterVars>>

\* The SELECT of line 214 resolves: without row the INSERT is sent; with a
\* row the reported rates are compared (lines 244-260) and one of the two
\* UPDATEs is sent.
CommissionSelect(id) ==
  /\ cmFlush[id].pc = "select"
  /\ LET row == validator_commissions[ValidatorOf(id)]
         b == cmObjs[id].baking
         f == cmObjs[id].txFee
         nb == b # NoRate /\ ~nearlyEqual(b, Compared(row, "baking"))
         nf == f # NoRate /\ ~nearlyEqual(f, Compared(row, "txFee"))
     IN cmFlush' = [cmFlush EXCEPT ![id] =
          IF ~row.exists
            THEN [@ EXCEPT !.pc = "insert", !.doneBefore = Returned]
            ELSE [@ EXCEPT
                    !.pc = IF nb \/ nf THEN "update_notified" ELSE "update_current",
                    !.rowCount = 1,
                    !.prevBaking = row.last_notified_baking_rate,
                    !.prevTxFee = row.last_notified_transaction_fee_rate,
                    !.needUpdateBaking = nb,
                    !.needUpdateTxFee = nf,
                    !.doneBefore = Returned]]
  /\ UNCHANGED <<validator_commissions, commissionChanged>>
  /\ UNCHANGED <<memoVars, retryVars, wrapperVars, fanoutVars, streamVars, waiterVars, bucketVars>>

\* The INSERT of lines 230-236 resolves: refused for a null rate (the flush
\* rejects), else the row is there (ON CONFLICT DO NOTHING) and the flush
\* goes on to notify (lines 238-242).
CommissionInsert(id) ==
  /\ cmFlush[id].pc = "insert"
  /\ LET v == ValidatorOf(id)
         b == cmObjs[id].baking
         f == cmObjs[id].txFee
     IN IF Violates(b, f)
          THEN /\ cmFlush' = [cmFlush EXCEPT ![id].pc = "threw"]
               /\ UNCHANGED validator_commissions
          ELSE /\ validator_commissions' =
                    [validator_commissions EXCEPT ![v] =
                       IF @.exists THEN @ ELSE Row(b, f)]
               /\ cmFlush' = [cmFlush EXCEPT ![id] =
                    [@ EXCEPT !.pc = "update_notified",
                              !.prevBaking = b, !.prevTxFee = f,
                              !.needUpdateBaking = TRUE,
                              !.needUpdateTxFee = TRUE]]
  /\ UNCHANGED commissionChanged
  /\ UNCHANGED <<memoVars, retryVars, wrapperVars, fanoutVars, streamVars, waiterVars, bucketVars>>

\* The UPDATE of lines 266-273 resolves: nothing to notify, the current rates
\* are written and the flush returns.
CommissionUpdateCurrent(id) ==
  /\ cmFlush[id].pc = "update_current"
  /\ validator_commissions' =
       [validator_commissions EXCEPT ![ValidatorOf(id)] =
          IF @.exists
            THEN [@ EXCEPT
                    !.baking_rate = Coalesce(cmObjs[id].baking, @),
                    !.transaction_fee_rate = Coalesce(cmObjs[id].txFee, @)]
            ELSE @]
  /\ cmFlush' = [cmFlush EXCEPT ![id].pc = "done"]
  /\ UNCHANGED commissionChanged
  /\ UNCHANGED <<memoVars, retryVars, wrapperVars, fanoutVars, streamVars, waiterVars, bucketVars>>

\* The UPDATE of lines 277-286 resolves: the current and the last-notified
\* rates are written, the recipients are asked for.
CommissionUpdateNotified(id) ==
  /\ cmFlush[id].pc = "update_notified"
  /\ validator_commissions' =
       [validator_commissions EXCEPT ![ValidatorOf(id)] =
          IF @.exists
            THEN [@ EXCEPT
                    !.baking_rate = Coalesce(cmObjs[id].baking, @),
                    !.transaction_fee_rate = Coalesce(cmObjs[id].txFee, @),
                    !.last_notified_baking_rate = Coalesce(cmObjs[id].baking, @),
                    !.last_notified_transaction_fee_rate =
                        Coalesce(cmObjs[id].txFee, @)]
            ELSE @]
  /\ cmFlush' = [cmFlush EXCEPT ![id].pc = "recipients"]
  /\ UNCHANGED commissionChanged
  /\ UNCHANGED <<memoVars, retryVars, wrapperVars, fanoutVars, streamVars, waiterVars, bucketVars>>

\* The SELECT of the delegators resolves (lines 288-308): without recipient
\* the flush returns, else the recipient is sent MSGS.commissionChanged.
CommissionRecipients(id, rowCount) ==
  /\ cmFlush[id].pc = "recipients"
  /\ cmFlush' = [cmFlush EXCEPT ![id].pc = "done", ![id].recipients = rowCount]
  /\ commissionChanged' =
       IF rowCount = 0 THEN commissionChanged
       ELSE LET b == cmObjs[id].baking
                f == cmObjs[id].txFee
                pb0 == cmFlush[id].prevBaking
                pf0 == cmFlush[id].prevTxFee
            IN Append(commissionChanged,
                 [bucket |-> id,
                  validatorId |-> ValidatorOf(id),
                  oldBaking |-> Coalesce(pb0, Coalesce(b, 0)),
                  newBaking |-> Coalesce(b, Coalesce(pb0, 0)),
                  oldTx |-> Coalesce(pf0, Coalesce(f, 0)),
                  newTx |-> Coalesce(f, Coalesce(pf0, 0))])
  /\ UNCHANGED validator_commissions
  /\ UNCHANGED <<memoVars, retryVars, wrapperVars, fanoutVars, streamVars, waiterVars, bucketVars>>

\* The validator whose commission events the commission runs follow.
CommissionValidators == {"v1"}

NextCommission ==
  \/ \E v \in CommissionValidators, b \in RatesAB, f \in RatesAB :
       SeedCommissionRow(v, b, f)
  \/ \E v \in CommissionValidators, b \in RatesAB, f \in RatesAB :
       upsertCommissionRowCurrent(v, b, f)
  \/ \E v \in CommissionValidators, r \in RatesAB, bh \in BlockHashes, h \in TxHashes :
       handleCommissionUpdate(v, r, NoRate, bh, h)
  \/ \E v \in CommissionValidators, r \in RatesAB, bh \in BlockHashes, h \in TxHashes :
       handleCommissionUpdate(v, NoRate, r, bh, h)
  \/ \E t \in timers : FlushCommissionBucket(t)
  \/ \E id \in DOMAIN cmObjs : CommissionSelect(id)
  \/ \E id \in DOMAIN cmObjs : CommissionInsert(id)
  \/ \E id \in DOMAIN cmObjs : CommissionUpdateCurrent(id)
  \/ \E id \in DOMAIN cmObjs : CommissionUpdateNotified(id)
  \/ \E id \in DOMAIN cmObjs, n \in 0..1 : CommissionRecipients(id, n)
  \/ Advance

\* ==================================================== the listener's loop
\* Positions of the listener that lie inside `while (true)`.
LoopStates == {"subscribe", "await_block", "backfill", "bf_block",
               "main_block", "pause"}

\* Outcomes of `for await (const bh of grpcClient.getBlocksAtHeight(hh))`.
FetchOutcomes == {"block", "none", "error"}

InitStream ==
  /\ pc = "probe"
  /\ probe = "pending"
  /\ lastHeight = NoHeight
  /\ cur = NoHeight
  /\ hh = NoHeight
  /\ nextMin = NoHeight
  /\ streamStart = NoHeight
  /\ processed = <<>>
  /\ attempts = [k \in Heights |-> 0]
  /\ fetchFailed = {}
  /\ fetchEmpty = {}
  /\ errors = 0
  /\ InitRegistry
  /\ InitBuckets
  /\ NoMemoCompared
  /\ NoRetry
  /\ NoFanout

\* await grpcClient.getConsensusStatus() resolved.
ProbeOk ==
  /\ pc = "probe"
  /\ UNCHANGED <<memoVars, retryVars, wrapperVars, fanoutVars, waiterVars, bucketVars, commissionVars>>
  /\ probe' = "resolved"
  /\ pc' = "subscribe"
  /\ UNCHANGED <<lastHeight, cur, hh, nextMin, streamStart, processed,
                 attempts, fetchFailed, fetchEmpty, errors>>

\* `.catch((e) => { throw new Error(...) })` (line 1245): where a rejected
\* probe leaves startTxLoggerListener.
ProbeFailTarget_swallowed == "subscribe"
ProbeFailTarget == "failed"

\* getConsensusStatus() rejected: startTxLoggerListener throws.
ProbeFail ==
  /\ pc = "probe"
  /\ UNCHANGED <<memoVars, retryVars, wrapperVars, fanoutVars, waiterVars, bucketVars, commissionVars>>
  /\ probe' = "rejected"
  /\ pc' = ProbeFailTarget
  /\ UNCHANGED <<lastHeight, cur, hh, nextMin, streamStart, processed,
                 attempts, fetchFailed, fetchEmpty, errors>>

\* Start height of the subscription opened at the top of the loop.
SubscribeStart_fromLast(lh) == lh
SubscribeStart(lh) == IF lh = NoHeight THEN NoHeight ELSE lh + 1

\* Top of `while (true)`: open the finalized-block stream.
Subscribe ==
  /\ pc = "subscribe"
  /\ UNCHANGED <<probe, memoVars, retryVars, wrapperVars, fanoutVars, waiterVars, bucketVars, commissionVars>>
  /\ streamStart' = SubscribeStart(lastHeight)
  /\ IF streamStart' = NoHeight
       THEN \E tip \in Heights : nextMin' = tip
       ELSE nextMin' = streamStart'
  /\ pc' = "await_block"
  /\ UNCHANGED <<lastHeight, cur, hh, processed, attempts, fetchFailed,
                 fetchEmpty, errors>>

\* `lastHeight != null && h > lastHeight + 1`
IsGap_never(lh, h) == FALSE
IsGap(lh, h) == lh # NoHeight /\ h > lh + 1

missingFrom(lh) == lh + 1
missingTo_short(h) == h - 2
missingTo(h) == h - 1

\* The stream delivers the block at height h.  Without a gap the loop calls
\* processBlock(h) at once; with a gap it enters the backfill loop and
\* requests the first missing height.
Deliver(h) ==
  /\ pc = "await_block"
  /\ UNCHANGED <<probe, memoVars, retryVars, wrapperVars, fanoutVars, waiterVars, bucketVars, commissionVars>>
  /\ h >= nextMin
  /\ cur' = h
  /\ nextMin' = h + 1
  /\ IF IsGap(lastHeight, h) /\ missingFrom(lastHeight) <= missingTo(h)
       THEN /\ hh' = missingFrom(lastHeight)
            /\ attempts' = [attempts EXCEPT ![hh'] = @ + 1]
            /\ pc' = "backfill"
            /\ UNCHANGED processed
       ELSE /\ processed' = Append(processed, h)
            /\ pc' = "main_block"
            /\ UNCHANGED <<hh, attempts>>
  /\ UNCHANGED <<lastHeight, streamStart, fetchFailed, fetchEmpty, errors>>

\* Height the backfill loop turns to after finishing with height k.
NextBackfill_retry(k, outcome) == IF outcome = "error" THEN k ELSE k + 1
NextBackfill(k, outcome) == k + 1

\* `hh++` and the loop test; leaves the loop into processBlock(h).
BackfillAdvance(outcome) ==
  LET n == NextBackfill(hh, outcome) IN
  IF n <= missingTo(cur)
    THEN /\ hh' = n
         /\ attempts' = [attempts EXCEPT ![n] = @ + 1]
         /\ pc' = "backfill"
         /\ UNCHANGED processed
    ELSE /\ processed' = Append(processed, cur)
         /\ pc' = "main_block"
         /\ UNCHANGED <<hh, attempts>>

\* getBlocksAtHeight(hh) yields its first block: processBlock(bh, hh).
FetchBlock ==
  /\ pc = "backfill"
  /\ UNCHANGED <<probe, memoVars, retryVars, wrapperVars, fanoutVars, waiterVars, bucketVars, commissionVars>>
  /\ processed' = Append(processed, hh)
  /\ pc' = "bf_block"
  /\ UNCHANGED <<lastHeight, cur, hh, nextMin, streamStart, attempts,
                 fetchFailed, fetchEmpty, errors>>

\* getBlocksAtHeight(hh) yields nothing: the loop body never runs.
FetchNone ==
  /\ pc = "backfill"
  /\ UNCHANGED <<probe, memoVars, retryVars, wrapperVars, fanoutVars, waiterVars, bucketVars, commissionVars>>
  /\ fetchEmpty' = fetchEmpty \cup {hh}
  /\ BackfillAdvance("none")
  /\ UNCHANGED <<lastHeight, cur, nextMin, streamStart, fetchFailed, errors>>

\* getBlocksAtHeight(hh) throws: caught, logged, next height.
FetchError ==
  /\ pc = "backfill"
  /\ UNCHANGED <<probe, memoVars, retryVars, wrapperVars, fanoutVars, waiterVars, bucketVars, commissionVars>>
  /\ fetchFailed' = fetchFailed \cup {hh}
  /\ BackfillAdvance("error")
  /\ UNCHANGED <<lastHeight, cur, nextMin, streamStart, fetchEmpty, errors>>

\* processBlock(bh, hh) returned; `break`.
EndBackfillBlock ==
  /\ pc = "bf_block"
  /\ UNCHANGED <<probe, memoVars, retryVars, wrapperVars, fanoutVars, waiterVars, bucketVars, commissionVars>>
  /\ BackfillAdvance("block")
  /\ UNCHANGED <<lastHeight, cur, nextMin, streamStart, fetchFailed,
                 fetchEmpty, errors>>

\* processBlock(hash, h) returned; `lastHeight = h`.
EndMainBlock ==
  /\ pc = "main_block"
  /\ UNCHANGED <<probe, memoVars, retryVars, wrapperVars, fanoutVars, waiterVars, bucketVars, commissionVars>>
  /\ lastHeight' = cur
  /\ pc' = "await_block"
  /\ UNCHANGED <<cur, hh, nextMin, streamStart, processed, attempts,
                 fetchFailed, fetchEmpty, errors>>

\* Where a failure of the stream iteration leaves the listener.
StreamErrorTarget_exit == "failed"
StreamErrorTarget == "pause"

\* The stream iteration throws: caught by the catch of the loop body.
StreamError ==
  /\ pc = "await_block"
  /\ UNCHANGED <<probe, memoVars, retryVars, wrapperVars, fanoutVars, waiterVars, bucketVars, commissionVars>>
  /\ errors < MaxErrors
  /\ errors' = errors + 1
  /\ pc' = StreamErrorTarget
  /\ UNCHANGED <<lastHeight, cur, hh, nextMin, streamStart, processed,
                 attempts, fetchFailed, fetchEmpty>>

\* The stream ends without an error.
StreamEnd ==
  /\ pc = "await_block"
  /\ UNCHANGED <<probe, memoVars, retryVars, wrapperVars, fanoutVars, waiterVars, bucketVars, commissionVars>>
  /\ pc' = "pause"
  /\ UNCHANGED <<lastHeight, cur, hh, nextMin, streamStart, processed,
                 attempts, fetchFailed, fetchEmpty, errors>>

\* The 1000 ms pause elapsed: next iteration of `while (true)`.
PauseDone ==
  /\ pc = "pause"
  /\ UNCHANGED <<probe, memoVars, retryVars, wrapperVars, fanoutVars, waiterVars, bucketVars, commissionVars>>
  /\ pc' = "subscribe"
  /\ UNCHANGED <<lastHeight, cur, hh, nextMin, streamStart, processed,
                 attempts, fetchFailed, fetchEmpty, errors>>

NextStream ==
  \/ ProbeOk
  \/ ProbeFail
  \/ Subscribe
  \/ \E h \in Heights : Deliver(h)
  \/ FetchBlock
  \/ FetchNone
  \/ FetchError
  \/ EndBackfillBlock
  \/ EndMainBlock
  \/ StreamError
  \/ StreamEnd
  \/ PauseDone

SpecStream == InitStream /\ [][NextStream]_vars

\* The registry and processBlock, with the listener's own variables at rest.
\* The listener has opened its first stream, at the tip (height 0), and the
\* node delivers every block of the chain in turn.
InitWaiters ==
  /\ pc = "await_block"
  /\ probe = "resolved"
  /\ lastHeight = NoHeight
  /\ cur = NoHeight
  /\ hh = NoHeight
  /\ nextMin = 0
  /\ streamStart = NoHeight
  /\ processed = <<>>
  /\ attempts = [k \in Heights |-> 0]
  /\ fetchFailed = {}
  /\ fetchEmpty = {}
  /\ errors = 0
  /\ InitRegistry
  /\ InitBuckets
  /\ NoMemoCompared
  /\ NoRetry
  /\ NoFanout

SpecWaiters == InitWaiters /\ [][NextWaiters]_vars

\* The aggregation buckets, with the listener and the registry at rest.
SpecBuckets == InitWaiters /\ [][NextBuckets]_vars

\* handleCommissionUpdate without transaction hash (alerts.js, lines
\* 540-552): the bucket is set under a key of its own and flushed in the same
\* synchronous segment (flushCommissionBucket gets and deletes it before its
\* first await), without timer.
handleCommissionUpdate_noHash(validatorId, bakingRewardCommission, transactionFeeCommission, blockHash) ==
  LET id == Len(cmObjs) + 1
      b == [CommissionBucket(validatorId, Null) EXCEPT
              !.blockHash = blockHash,
              !.baking = bakingRewardCommission,
              !.txFee = transactionFeeCommission]
  IN /\ bevents < MaxBucketEvents
     /\ BucketOps < MaxBucketOps
     /\ bevents' = bevents + 1
     /\ cmObjs' = Append(cmObjs, b)
     /\ cmHist' = Append(cmHist, [NewHist(clock, 0) EXCEPT
                                    !.runs = 1, !.flushedAt = {clock}])
     /\ cmFlush' = [cmFlush EXCEPT ![id].pc =
                      IF b.baking = NoRate /\ b.txFee = NoRate
                        THEN "done" ELSE "select"]
     /\ UNCHANGED <<newDelegatorBuckets, commissionBuckets, ndObjs, timers,
                    nextTimer, clock, flushing, newDelegatorJoined, ndHist,
                    alertsTx>>
     /\ UNCHANGED <<validator_commissions, commissionChanged>>
     /\ UNCHANGED <<memoVars, retryVars, wrapperVars, fanoutVars, streamVars, waiterVars>>

\* Time passes while a timer is pending.
Elapse ==
  /\ \E t \in timers : clock < t.due
  /\ clock' = clock + ClockStep
  /\ UNCHANGED <<newDelegatorBuckets, commissionBuckets, ndObjs, cmObjs,
                 timers, nextTimer, flushing, newDelegatorJoined, bevents,
                 ndHist, cmHist, alertsTx>>
  /\ UNCHANGED <<memoVars, retryVars, wrapperVars, fanoutVars, streamVars, waiterVars, commissionVars>>

\* A due timer runs its callback.
TimerFires ==
  \/ \E t \in timers : FlushNewDelegatorBucket(t)
  \/ \E t \in timers : FlushCommissionBucket(t)

\* The events of one delegator in any transaction, and of one validator in
\* the first transaction and without hash.
NextBucketsLive ==
  \/ \E a \in Accounts, h \in TxHashes :
       handleNewDelegator_DelegationAdded("d1", a, h)
  \/ \E v \in PoolIds, h \in TxHashes :
       handleNewDelegator_TargetSet("d1", v, h)
  \/ \E r \in Rates, bh \in BlockHashes :
       handleCommissionUpdate("v1", r, NoRate, bh, TxOrder[1])
  \/ \E r \in Rates, bh \in BlockHashes :
       handleCommissionUpdate_noHash("v1", r, NoRate, bh)
  \/ TimerFires
  \/ Advance
  \/ Elapse

\* The buckets with the scheduling of the event loop: time passes while a
\* timer is pending, and a due timer runs its callback.
FairSpecBuckets ==
  /\ InitWaiters
  /\ [][NextBucketsLive]_vars
  /\ WF_vars(Elapse)
  /\ WF_vars(TimerFires)

\* The commission buckets and their flushes against validator_commissions.
SpecCommission == InitWaiters /\ [][NextCommission]_vars

\* The memo comparison on its own: any transaction memo against any
\* expected memo, everything else at rest.
InitMemo ==
  /\ pc = "await_block"
  /\ probe = "resolved"
  /\ lastHeight = NoHeight
  /\ cur = NoHeight
  /\ hh = NoHeight
  /\ nextMin = 0
  /\ streamStart = NoHeight
  /\ processed = <<>>
  /\ attempts = [k \in Heights |-> 0]
  /\ fetchFailed = {}
  /\ fetchEmpty = {}
  /\ errors = 0
  /\ InitRegistry
  /\ InitBuckets
  /\ memoText \in MemoTexts
  /\ memoExpected \in MemoTexts
  /\ memoOk = "unset"
  /\ NoRetry
  /\ NoFanout

NextMemo == CompareMemos

SpecMemo == InitMemo /\ [][NextMemo]_vars

\* ============================================ retryAsync (utils/retry.js)
\* What fn resolves with, and what it rejects with.
FnValues == {"r1", "r2"}
FnErrs == {"e1", "e2", "e3"}

\* `attempt <= retries` (line 30).
LoopGoesOn(a, r) == a <= r
\* `if (attempt > retries) throw err` (line 35).
RetryExhausted_early(a, r) == a >= r
RetryExhausted(a, r) == a > r

\* Top of `while (attempt <= retries)`: fn is invoked and awaited; past the
\* loop the function ends and the promise resolves with undefined.
RetryLoop ==
  /\ retryPc = "loop"
  /\ IF LoopGoesOn(attempt, retryArg)
       THEN /\ retryPc' = "fn"
            /\ fnCalls' = fnCalls + 1
            /\ UNCHANGED retryResult
       ELSE /\ retryPc' = "returned"
            /\ retryResult' = "undefined"
            /\ UNCHANGED fnCalls
  /\ UNCHANGED <<retryArg, attempt, fnErrors>>
  /\ UNCHANGED <<streamVars, waiterVars, bucketVars, commissionVars, memoVars,
                 wrapperVars, fanoutVars>>

\* `return await fn()`: fn resolved with v.
FnResolves(v) ==
  /\ retryPc = "fn"
  /\ retryPc' = "returned"
  /\ retryResult' = v
  /\ UNCHANGED <<retryArg, attempt, fnCalls, fnErrors>>
  /\ UNCHANGED <<streamVars, waiterVars, bucketVars, commissionVars, memoVars,
                 wrapperVars, fanoutVars>>

\* fn rejected with e: lines 33-37.
FnRejects(e) ==
  /\ retryPc = "fn"
  /\ attempt' = attempt + 1
  /\ fnErrors' = Append(fnErrors, e)
  /\ IF RetryExhausted(attempt', retryArg)
       THEN retryPc' = "thrown" /\ retryResult' = e
       ELSE retryPc' = "delay" /\ UNCHANGED retryResult
  /\ UNCHANGED <<retryArg, fnCalls>>
  /\ UNCHANGED <<streamVars, waiterVars, bucketVars, commissionVars, memoVars,
                 wrapperVars, fanoutVars>>

\* `await delay(delayMs)` resolved.
DelayDone ==
  /\ retryPc = "delay"
  /\ retryPc' = "loop"
  /\ UNCHANGED <<retryArg, attempt, fnCalls, fnErrors, retryResult>>
  /\ UNCHANGED <<streamVars, waiterVars, bucketVars, commissionVars, memoVars,
                 wrapperVars, fanoutVars>>

\* retryAsync(fn, retries) has been called, everything else at rest.
InitRetry ==
  /\ pc = "await_block"
  /\ probe = "resolved"
  /\ lastHeight = NoHeight
  /\ cur = NoHeight
  /\ hh = NoHeight
  /\ nextMin = 0
  /\ streamStart = NoHeight
  /\ processed = <<>>
  /\ attempts = [k \in Heights |-> 0]
  /\ fetchFailed = {}
  /\ fetchEmpty = {}
  /\ errors = 0
  /\ InitRegistry
  /\ InitBuckets
  /\ NoMemoCompared
  /\ retryPc = "loop"
  /\ retryArg \in 0..MaxRetries
  /\ attempt = 0
  /\ fnCalls = 0
  /\ fnErrors = <<>>
  /\ retryResult = "none"
  /\ NoFanout

\* fn terminates: its promise resolves or rejects.
FnSettles ==
  \/ \E v \in FnValues : FnResolves(v)
  \/ \E e \in FnErrs : FnRejects(e)

NextRetry ==
  \/ RetryLoop
  \/ \E v \in FnValues : FnResolves(v)
  \/ \E e \in FnErrs : FnRejects(e)
  \/ DelayDone

SpecRetry == InitRetry /\ [][NextRetry]_vars

\* fn settles, the timer of delay fires, the synchronous top of the loop runs.
FairSpecRetry ==
  /\ SpecRetry
  /\ WF_vars(RetryLoop)
  /\ WF_vars(FnSettles)
  /\ WF_vars(DelayDone)

\* ================================ the register wrappers of roles/*.js
\* The wrapper call the next call of a wrapper makes (0: none left).
FreeWrapper ==
  IF \E w \in Ids : wrappers[w].state = "none"
    THEN CHOOSE w \in Ids :
           wrappers[w].state = "none" /\ \A v \in Ids : v < w => wrappers[v].state # "none"
    ELSE 0

\* register{Validator,Delegator}MemoWaiter(args) of roles/*.js up to its
\* return: `unsubscribe = () => {}`, _getTxl().then(...) is pending, the
\* cancel closure is returned.
registerMemoWaiterWrapper(role, addr, memo) ==
  /\ FreeWrapper # 0
  /\ wrappers' = [wrappers EXCEPT ![FreeWrapper] =
                    [state |-> "pending", role |-> role, addr |-> addr,
                     memo |-> memo, reg |-> 0, cancelled |-> FALSE]]
  /\ UNCHANGED <<streamVars, waiterVars, bucketVars, commissionVars, memoVars,
                 retryVars, fanoutVars>>

\* The `then` of _getTxl() runs: the listener's register function is called
\* and `unsubscribe` is bound to the closure it returns.
WrapperThen(w) ==
  /\ wrappers[w].state = "pending"
  /\ nextId <= MaxRegs
  /\ LET role == wrappers[w].role
         key == RegisterKey(wrappers[w].addr) IN
       /\ waiters' = [waiters EXCEPT ![role][key] =
                        [expectedMemo |-> wrappers[w].memo, id |-> nextId,
                         createdAt |-> now]]
       /\ regs' = [regs EXCEPT ![nextId] =
                     [role |-> role, key |-> key, memo |-> wrappers[w].memo]]
  /\ nextId' = nextId + 1
  /\ wrappers' = [wrappers EXCEPT ![w].state = "registered", ![w].reg = nextId]
  /\ UNCHANGED <<wrongMemoNotifier, expiredNotifier, now, pb, txDone, succ,
                 wrong, expired>>
  /\ UNCHANGED <<streamVars, bucketVars, commissionVars, memoVars, retryVars,
                 fanoutVars>>

\* What the cancel closure of a wrapper call does to the registry:
\* `unsubscribe()` is `() => {}` until the `then` has run, the listener's
\* `Map.delete(key)` after it.
Unsubscribed(w) ==
  IF wrappers[w].reg = 0 THEN waiters
  ELSE [waiters EXCEPT ![wrappers[w].role][regs[wrappers[w].reg].key] = NoWaiter]

\* The closure returned by the wrapper is called (state.unregisterWaiter).
WrapperCancel(w) ==
  /\ wrappers[w].state # "none"
  /\ ~wrappers[w].cancelled
  /\ waiters' = Unsubscribed(w)
  /\ wrappers' = [wrappers EXCEPT ![w].cancelled = TRUE]
  /\ UNCHANGED <<wrongMemoNotifier, expiredNotifier, now, nextId, pb, txDone,
                 succ, wrong, expired, regs>>
  /\ UNCHANGED <<streamVars, bucketVars, commissionVars, memoVars, retryVars,
                 fanoutVars>>

NextWrappers ==
  \/ \E r \in Roles, a \in RegAddrs, m \in ExpectedMemos :
       registerMemoWaiterWrapper(r, a, m)
  \/ \E w \in Ids : WrapperThen(w)
  \/ \E w \in Ids : WrapperCancel(w)

\* The verification flows registering and cancelling through the wrappers,
\* the listener at rest.
SpecWrappers == InitWaiters /\ [][NextWrappers]_vars

\* ------------------------------------------------- stream: claims C1..C5
RECURSIVE Asc(_)
\* The members of a set of heights in ascending order.
Asc(S) ==
  IF S = {} THEN <<>>
  ELSE LET m == CHOOSE x \in S : \A y \in S : x <= y
       IN <<m>> \o Asc(S \ {m})

\* The part of s that follows the element x.
SuffixAfter(s, x) ==
  LET i == CHOOSE j \in DOMAIN s : s[j] = x
  IN SubSeq(s, i + 1, Len(s))

Skipped == fetchFailed \cup fetchEmpty
LastProcessed == IF processed = <<>> THEN NoHeight ELSE processed[Len(processed)]
InBackfill == pc \in {"backfill", "bf_block"}

\* C1 (as stated): when a block at height h > lastHeight + 1 is delivered,
\* processBlock has run for EVERY height lastHeight+1 .. h-1, in ascending
\* order, by the time processBlock runs for h.
C1_EveryMissingHeightProcessed ==
  (pc = "main_block" /\ IsGap(lastHeight, cur)) =>
     SuffixAfter(processed, lastHeight)
        = Asc((lastHeight + 1)..(cur - 1)) \o <<cur>>

\* C1 (amended): when a block at height h > lastHeight + 1 is delivered, the
\* backfill requests every height lastHeight+1 .. h-1 once, in ascending
\* order, and runs processBlock for each height whose request yields a block
\* (a height whose request fails or yields nothing is passed over), all of it
\* before processBlock runs for h and before lastHeight becomes h.
C1_GapBackfillBeforeBlock ==
  /\ (pc = "main_block" /\ IsGap(lastHeight, cur)) =>
       /\ \A k \in (lastHeight + 1)..(cur - 1) : attempts[k] = 1
       /\ SuffixAfter(processed, lastHeight)
             = Asc({k \in (lastHeight + 1)..(cur - 1) : k \notin Skipped})
                 \o <<cur>>
  /\ InBackfill =>
       /\ IsGap(lastHeight, cur)
       /\ hh \in (lastHeight + 1)..(cur - 1)
       /\ cur \notin Range(processed)
       /\ \A k \in (lastHeight + 1)..hh : attempts[k] = 1
       /\ \A k \in (hh + 1)..cur : attempts[k] = 0
       /\ SuffixAfter(processed, lastHeight)
             = Asc({k \in (lastHeight + 1)..(IF pc = "backfill" THEN hh - 1 ELSE hh) :
                      k \notin Skipped})

\* Deliveries 0 then 4 (the spec's 5 then 9): processing order 0,1,2,3,4.
C1_Witness ==
  /\ pc = "main_block"
  /\ lastHeight = 0
  /\ processed = <<0, 1, 2, 3, 4>>

\* C2 (as stated): each processed height is the previously processed height
\* plus one.
C2_NoGaps ==
  \A i \in 2..Len(processed) : processed[i] = processed[i - 1] + 1

\* C2 (amended): the processed heights have no gaps other than the heights the
\* backfill passed over: every height strictly between two consecutively
\* processed heights is one whose backfill request failed or yielded no block.
C2_NoUnexplainedGap ==
  \A i \in 2..Len(processed) :
     /\ processed[i] > processed[i - 1]
     /\ \A k \in (processed[i - 1] + 1)..(processed[i] - 1) : k \in Skipped

\* After a reconnect, a gap was backfilled with one height passed over.
C2_Witness ==
  /\ pc = "await_block"
  /\ errors >= 1
  /\ lastHeight = cur
  /\ Len(processed) >= 3
  /\ \E i \in 2..Len(processed) : processed[i] = processed[i - 1] + 2

\* C3: the heights passed to processBlock are strictly increasing and
\* lastHeight never decreases.
C3_StrictlyOrdered ==
  /\ [](\A i, j \in DOMAIN processed : i < j => processed[i] < processed[j])
  /\ [][lastHeight' >= lastHeight]_vars

\* Blocks processed on both sides of a reconnect and of a backfill.
C3_Witness ==
  /\ errors >= 1
  /\ streamStart # NoHeight
  /\ lastHeight = MaxHeight
  /\ Len(processed) >= 4
  /\ \E k \in Heights : attempts[k] = 1

\* C4: a height whose backfill request failed was requested exactly once, is
\* never processed, the backfill went on with the next height, and the block
\* that revealed the gap is still processed and becomes lastHeight.
C4_BackfillFailureSkipped ==
  \A k \in fetchFailed :
     /\ attempts[k] = 1
     /\ k \notin Range(processed)
     /\ k < cur
     /\ InBackfill => hh > k
     /\ ~InBackfill => cur \in Range(processed)
     /\ pc \in {"await_block", "pause", "subscribe"} => lastHeight = cur

\* Height 2 failed inside the gap 1..3; 3 and the triggering block 4 were
\* processed afterwards.
C4_Witness ==
  /\ pc = "await_block"
  /\ fetchFailed = {2}
  /\ processed = <<0, 1, 3, 4>>
  /\ lastHeight = 4

\* The loop with the scheduling the code guarantees: the 1000 ms timer fires
\* and the synchronous top of the loop runs.
FairSpecStream ==
  SpecStream /\ WF_vars(PauseDone) /\ WF_vars(Subscribe)

\* C5: an error of the stream iteration is caught (the loop is never left),
\* and the listener then subscribes again, from lastHeight + 1 where
\* lastHeight is the last processed height, or from the tip when no block has
\* been processed.
C5_ReconnectAfterStreamFailure ==
  /\ [][ /\ pc \in LoopStates => pc' \in LoopStates
         /\ errors' > errors => (pc = "await_block" /\ pc' = "pause")
         /\ pc' \in {"pause", "subscribe"} => lastHeight' = LastProcessed'
         /\ (pc = "subscribe" /\ pc' # "subscribe") =>
               /\ pc' = "await_block"
               /\ streamStart' = (IF lastHeight = NoHeight THEN NoHeight
                                  ELSE lastHeight + 1)
               /\ nextMin' > lastHeight ]_vars
  /\ (pc = "pause") ~> (pc = "await_block")

\* Resubscribed at lastHeight + 1 after MaxErrors failures of the stream.
C5_Witness ==
  /\ pc = "await_block"
  /\ errors = MaxErrors
  /\ lastHeight # NoHeight
  /\ streamStart = lastHeight + 1

\* ----------------------------------------------- registry: claims C6..C10
\* The waiter of a registration is stored in the registry.
Live(id) == \E r \in Roles, k \in KeySpace : waiters[r][k].id = id

\* processBlock has just evaluated the delegator waiter of the sender.
DStageDone == pb.pc = "await_memo" /\ pb'.pc # "await_memo"
\* processBlock has just evaluated the validator waiter of the sender.
VStageDone ==
  /\ pb.pc \in {"await_memo", "await_d_success", "await_d_wrong"}
  /\ pb'.pc \in {"await_v_success", "await_v_wrong", "alerts"}

\* onSuccess is invoked only for a waiter that is stored under the sender's
\* key and whose expected memo equals the observed memo in normalized form.
SuccessOnlyForStoredMatch ==
  \A id \in Ids : succ'[id] # succ[id] =>
     /\ succ'[id] = succ[id] + 1
     /\ \E r \in Roles :
          /\ waiters[r][pb'.key].id = id
          /\ pb'.memo # Empty
          /\ normMemo(pb'.memo) = normMemo(waiters[r][pb'.key].expectedMemo)
          /\ pb'.pc = (IF r = "Delegator" THEN "await_d_success"
                       ELSE "await_v_success")

\* C6: a transaction from A whose memo equals the waiter's expected memo in
\* normalized form invokes that waiter's onSuccess once and the waiter is
\* removed when onSuccess settles; no waiter's onSuccess is ever invoked a
\* second time, so a later identical transaction invokes none unless a new
\* waiter was registered.
C6_AtMostOneCorrelation ==
  /\ [](\A id \in Ids : succ[id] <= 1)
  /\ [][ /\ SuccessOnlyForStoredMatch
         /\ LET w == delegatorWaiters[pb'.key] IN
            (DStageDone /\ pb'.hasD /\ w # NoWaiter /\ pb'.memo # Empty
               /\ normMemo(pb'.memo) = normMemo(w.expectedMemo))
            => (pb'.pc = "await_d_success" /\ succ'[w.id] = succ[w.id] + 1)
         /\ LET vw == validatorWaiters[pb'.key] IN
            (VStageDone /\ pb'.hasV /\ vw # NoWaiter /\ pb'.memo # Empty
               /\ normMemo(pb'.memo) = normMemo(vw.expectedMemo))
            => (pb'.pc = "await_v_success" /\ succ'[vw.id] = succ[vw.id] + 1)
         /\ (pb.pc = "await_d_success" /\ pb'.pc # pb.pc)
            => delegatorWaiters'[pb.key] = NoWaiter
         /\ (pb.pc = "await_v_success" /\ pb'.pc # pb.pc)
            => validatorWaiters'[pb.key] = NoWaiter ]_vars

\* One validator waiter was registered and matched; a second transaction of
\* the same sender has been correlated and found no waiter.
C6_Witness ==
  /\ nextId = 2
  /\ regs[1].role = "Validator"
  /\ succ[1] = 1
  /\ ~Live(1)
  /\ pb.pc = "alerts"
  /\ pb.key = regs[1].key
  /\ ~pb.hasV

\* C7: a transaction from A whose memo differs, in normalized form, from the
\* waiter's expected memo invokes the role's wrong-memo notifier for that
\* waiter, invokes no onSuccess for it, and leaves that waiter stored.
C7_WrongMemoKeepsWaiter ==
  [][ /\ \A id \in Ids : wrong'[id] # wrong[id] =>
            /\ wrong'[id] = wrong[id] + 1
            /\ succ'[id] = succ[id]
            /\ \E r \in Roles :
                 /\ waiters[r][pb'.key].id = id
                 /\ waiters'[r][pb'.key] = waiters[r][pb'.key]
                 /\ pb'.memo # Empty
                 /\ normMemo(pb'.memo) # normMemo(waiters[r][pb'.key].expectedMemo)
      /\ LET w == delegatorWaiters[pb'.key] IN
         (DStageDone /\ pb'.hasD /\ w # NoWaiter /\ pb'.memo # Empty
            /\ normMemo(pb'.memo) # normMemo(w.expectedMemo))
         => /\ pb'.pc = "await_d_wrong"
            /\ wrong'[w.id] = wrong[w.id] + 1
            /\ succ'[w.id] = succ[w.id]
            /\ delegatorWaiters'[pb'.key] = w
      /\ LET vw == validatorWaiters[pb'.key] IN
         (VStageDone /\ pb'.hasV /\ vw # NoWaiter /\ pb'.memo # Empty
            /\ normMemo(pb'.memo) # normMemo(vw.expectedMemo))
         => /\ pb'.pc = "await_v_wrong"
            /\ wrong'[vw.id] = wrong[vw.id] + 1
            /\ succ'[vw.id] = succ[vw.id]
            /\ validatorWaiters'[pb'.key] = vw
      /\ (pb.pc \in {"await_d_wrong", "await_v_wrong"} /\ pb'.pc # pb.pc)
         => waiters' = waiters ]_vars

\* A waiter was told of a wrong memo and later matched by the right one.
C7_Witness ==
  \E id \in Ids : wrong[id] >= 1 /\ succ[id] = 1 /\ nextId = 2

\* The step in which processBlock gives up resolving the sender.
SenderUnresolved ==
  /\ pb'.key = Empty
  /\ pb'.threw # "stream"
  /\ \/ pb.pc = "await_sender" /\ pb'.pc # "await_sender"
     \/ pb.pc = "next" /\ pb'.pc \notin {"next", "await_sender"}

\* C8: a transaction without a readable memo or without a resolvable sender
\* invokes neither onSuccess nor a wrong-memo notifier, leaves every waiter
\* unchanged, raises no exception, and processBlock goes on to the fan-out
\* of the transaction and the next transaction.
C8_MissingMemoOrSenderIsNoMatch ==
  [][ ((DStageDone /\ pb'.memo = Empty) \/ SenderUnresolved) =>
         /\ succ' = succ
         /\ wrong' = wrong
         /\ waiters' = waiters
         /\ pb'.pc = "alerts"
         /\ pb'.left = pb.left ]_vars

\* The sender has waiters of both roles and the memo could not be read.
C8_Witness ==
  /\ pb.pc = "alerts"
  /\ pb.hasD /\ pb.hasV
  /\ pb.memo = Empty
  /\ delegatorWaiters[pb.key] # NoWaiter
  /\ validatorWaiters[pb.key] # NoWaiter

\* C9: pruneWaiters removes exactly the waiters with now - createdAt > TTL,
\* invokes the expiry notifier once for each of them and for no other, leaves
\* every other waiter as it was; no waiter is notified twice, and after its
\* expiry no onSuccess or wrong-memo notifier is invoked for it.
C9_ExpiryByPrune ==
  /\ [](\A id \in Ids : expired[id] <= 1)
  /\ [][ /\ Prune =>
              \A r \in Roles, k \in KeySpace :
                 LET w == waiters[r][k] IN
                 w # NoWaiter =>
                    IF now - w.createdAt > WAITER_TTL_MS
                      THEN /\ waiters'[r][k] = NoWaiter
                           /\ expired'[w.id] = expired[w.id] + 1
                      ELSE /\ waiters'[r][k] = w
                           /\ expired'[w.id] = expired[w.id]
         /\ expired' # expired => Prune
         /\ \A id \in Ids : expired[id] >= 1 =>
               /\ succ'[id] = succ[id]
               /\ wrong'[id] = wrong[id]
               /\ ~Live(id)' ]_vars

\* A waiter expired unmatched, and a later transaction of its sender found
\* no waiter.
C9_Witness ==
  \E id \in Ids :
     /\ expired[id] = 1
     /\ succ[id] = 0
     /\ nextId = 2
     /\ pb.pc = "alerts"
     /\ pb.key = regs[id].key
     /\ ~pb.hasD /\ ~pb.hasV

\* C10: the registry holds at most one waiter per role and normalized
\* address; a registration replaces the waiter stored for its role and
\* address and touches no other, and onSuccess is only ever invoked for the
\* waiter that is stored, never for one that was replaced.
C10_OverwriteSemantics ==
  /\ [](\A r \in Roles, k1, k2 \in KeySpace :
          (waiters[r][k1] # NoWaiter /\ waiters[r][k2] # NoWaiter
             /\ normAddr(k1) = normAddr(k2)) => k1 = k2)
  /\ [][ /\ SuccessOnlyForStoredMatch
         /\ nextId' # nextId =>
              \E r \in Roles, a \in RegAddrs :
                 /\ waiters'[r][normAddr(a)].id = nextId
                 /\ \A id \in Ids \ {nextId} :
                      Live(id)' <=> (Live(id) /\ waiters[r][normAddr(a)].id # id)
                 /\ \A r2 \in Roles, k2 \in KeySpace :
                      (r2 # r \/ k2 # normAddr(a)) => waiters'[r2][k2] = waiters[r2][k2] ]_vars

\* Two registrations for one role and address; a transaction with the first
\* memo only drew a wrong-memo notice for the second waiter, one with the
\* second memo fired the second waiter's onSuccess.
C10_Witness ==
  /\ nextId = 3
  /\ regs[1].role = regs[2].role /\ regs[1].key = regs[2].key
  /\ normMemo(regs[1].memo) # normMemo(regs[2].memo)
  /\ succ[1] = 0 /\ wrong[1] = 0
  /\ wrong[2] = 1 /\ succ[2] = 1
  /\ txDone = 2

\* ---------------------------------------------- registry: claims C11..C18
\* C11: the function returned by a registration removes the waiter of that
\* registration if it is still stored and otherwise changes nothing; it never
\* removes the waiter of another registration.
C11_CancelOnlyOwnWaiter ==
  [][ \A id \in Ids : Cancel(id) =>
         /\ ~Live(id)'
         /\ \A j \in Ids \ {id} : Live(j) => Live(j)' ]_vars

\* processBlock is suspended in the onSuccess of registration id.
InFlightSuccess(id) ==
  pb.pc \in {"await_d_success", "await_v_success"} /\ pb.inflight = id

\* The waiter of registration id was removed: it is no longer stored, or
\* it expired, or its onSuccess has settled.
Removed(id) ==
  /\ id < nextId
  /\ \/ ~Live(id)
     \/ expired[id] >= 1
     \/ succ[id] >= 1 /\ ~InFlightSuccess(id)

\* C12: once a waiter has been removed by cancellation, expiry or a
\* successful match, no onSuccess and no wrong-memo notifier is invoked for
\* it, wherever processBlock was suspended when the removal happened.
C12_NoInvocationAfterRemoval ==
  [][ \A id \in Ids : Removed(id) =>
         (succ'[id] = succ[id] /\ wrong'[id] = wrong[id]) ]_vars

\* The waiter was cancelled while processBlock awaited the memo of a
\* transaction of its sender; the memo then read found no waiter.
C12_Witness ==
  /\ nextId = 2
  /\ ~Live(1)
  /\ succ[1] = 0 /\ wrong[1] = 0 /\ expired[1] = 0
  /\ pb.pc = "special" /\ pb.threw = "tx"
  /\ pb.key = regs[1].key
  /\ pb.memo # Empty

\* C13: for every waiter at most one of onSuccess and the expiry notifier is
\* ever invoked, also when pruneWaiters runs while processBlock is suspended
\* in that waiter's onSuccess.
C13_ExclusiveTerminalOutcome ==
  \A id \in Ids : ~(succ[id] >= 1 /\ expired[id] >= 1)

\* processBlock leaves the delegator stage of a transaction.
DStageLeft ==
  /\ pb.pc \in {"await_memo", "await_d_success", "await_d_wrong"}
  /\ pb'.pc \notin {"await_memo", "await_d_success", "await_d_wrong"}

\* C14: with a Delegator and a Validator waiter stored for the sender of a
\* transaction, each is evaluated against the memo on its own: whatever
\* happened to the delegator waiter, the validator waiter gets onSuccess if
\* the memo equals its expected memo and a wrong-memo notice if not, and the
\* success of one role leaves the other role's waiter stored.
C14_RolesIndependent ==
  [][ /\ LET vw == validatorWaiters[pb.key] IN
         (DStageLeft /\ pb.hasD /\ pb.hasV /\ vw # NoWaiter /\ pb'.memo # Empty)
         => IF normMemo(pb'.memo) = normMemo(vw.expectedMemo)
              THEN pb'.pc = "await_v_success" /\ succ'[vw.id] = succ[vw.id] + 1
              ELSE pb'.pc = "await_v_wrong" /\ wrong'[vw.id] = wrong[vw.id] + 1
      /\ (pb.pc = "await_d_success" /\ pb'.pc # pb.pc)
         => validatorWaiters' = validatorWaiters
      /\ (pb.pc = "await_v_success" /\ pb'.pc # pb.pc)
         => delegatorWaiters' = delegatorWaiters ]_vars

\* C15: a fallback (CLI) read of a transaction's sender or memo is started
\* only while a waiter is stored; with both Maps empty a transaction is
\* processed without any fallback read.
C15_FallbackOnlyWithWaiters ==
  [][ (pb'.pc \in {"await_sender", "await_memo"} /\ pb'.pc # pb.pc)
         => \E id \in Ids : Live(id) ]_vars

\* A transaction with a hash and no sender in the stream was processed while
\* no waiter had ever been registered.
C15_Witness ==
  /\ nextId = 1
  /\ pb.pc = "alerts"
  /\ pb.hasHash
  /\ pb.key = Empty

\* `retries = 2`: the default of the retry helper (utils/retry.js).
retries == 2

\* C16: a fallback read that fails is attempted 1 + retries times before
\* its failure is surfaced, and the surfaced failure leaves the transaction
\* uncorrelated: no callback, no exception, the fan-out of the transaction
\* and the rest of the block follow.
C16_BoundedFallbackRetry ==
  [][ pb'.fails = pb.fails + 1 =>
         /\ pb.cli = 1 + retries
         /\ pb'.pc = "alerts"
         /\ pb'.threw = "no"
         /\ pb'.left = pb.left
         /\ succ' = succ /\ wrong' = wrong ]_vars

\* C17: when the handler of one event of a transaction, or of one special
\* event, throws, the fan-out stays in its loop for the events that follow;
\* after the fan-out of a transaction the next transaction of the block is
\* read, then the special events, and processBlock returns to the listener,
\* which sets lastHeight to the height of the block and awaits the next one.
C17_HandlerFailureIsolated ==
  [][ /\ (pb'.ev = pb.ev + 1 /\ pb'.evFail = pb'.ev)
         => /\ pb'.pc = pb.pc
            /\ pb'.left = pb.left
            /\ pb'.threw = pb.threw
      /\ (pb.pc = "alerts" /\ pb'.pc # "alerts")
         => /\ pb'.pc = (IF pb.left > 1 THEN "next" ELSE "special")
            /\ pb'.left = (IF pb.left > 1 THEN pb.left - 1 ELSE 0)
            /\ pb'.threw = "no"
      /\ (pb.pc = "special" /\ pb'.pc # "special")
         => /\ pb'.pc = "idle"
            /\ lastHeight' = cur
            /\ pc' = "await_block" ]_vars

\* The handler of the first event of a transaction threw and the second
\* event of that transaction was handled, with another transaction of the
\* block still to come.
C17_Witness ==
  /\ pb.pc = "alerts"
  /\ pb.ev = 2 /\ pb.evFail = 1
  /\ pb.left = 2

\* C18: when a waiter's onSuccess throws or rejects, the transactions that
\* follow in the same block are still read and processed: none is left
\* unread when processBlock moves on to the special events.
C18_CallbackFailureKeepsBlock ==
  pb.threw = "cb" => pb.left = 0

\* ---------------------------------------------------------------- C19
\* The facets of the notification a bucket object holds.
NdFacets(b) ==
  (IF b.sawAdded THEN 1 ELSE 0) + (IF b.validatorId # Null THEN 1 ELSE 0)
    + (IF b.stakeMicro # NoStake THEN 1 ELSE 0)
CmFacets(b) ==
  (IF b.baking # NoRate THEN 1 ELSE 0) + (IF b.txFee # NoRate THEN 1 ELSE 0)

\* C19: every bucket object, new-delegator or commission, is in its Map from
\* the event that creates it until its flush and never again: the flush body
\* runs at most once for it, the flush removes it from the Map, no step
\* changes a flushed object, and an object created by an event (for a key
\* that is free, also after a flush of that key) holds nothing but what that
\* one event assigns.
C19_BucketFlushedOnce ==
  [][ /\ \A i \in DOMAIN ndObjs' :
           /\ ndHist'[i].runs <= 1
           /\ (ndHist'[i].runs = 0) <=> (\E k \in NdKeys : newDelegatorBuckets'[k] = i)
      /\ \A i \in DOMAIN ndObjs : ndHist[i].runs = 1 => ndObjs'[i] = ndObjs[i]
      /\ \A i \in DOMAIN ndObjs' \ DOMAIN ndObjs :
           /\ NdFacets(ndObjs'[i]) = 1
           /\ ndObjs'[i].sawAdded <=> ndObjs'[i].account # Null
      /\ \A i \in DOMAIN cmObjs' :
           /\ cmHist'[i].runs <= 1
           /\ (cmHist'[i].runs = 0) <=> (\E k \in CmKeys : commissionBuckets'[k] = i)
      /\ \A i \in DOMAIN cmObjs : cmHist[i].runs = 1 => cmObjs'[i] = cmObjs[i]
      /\ \A i \in DOMAIN cmObjs' \ DOMAIN cmObjs : CmFacets(cmObjs'[i]) = 1 ]_vars

\* A bucket of a transaction was flushed holding the added delegation, and a
\* later event of the same transaction has made a new bucket under the same
\* key that does not hold it.
C19_Witness ==
  \E i, j \in DOMAIN ndObjs :
    /\ i < j
    /\ ndHist[i].runs = 1
    /\ ndObjs[i].sawAdded
    /\ ndObjs[j].txHash = ndObjs[i].txHash
    /\ newDelegatorBuckets[bucketKeyForNewDelegator(ndObjs[i].txHash, Null)] = j
    /\ ~ndObjs[j].sawAdded
    /\ ndObjs[j].account = Null

\* ---------------------------------------------------------------- C20
\* The pending timers whose callback flushes the key.
PendingFor(kind, key) == {t \in timers : t.kind = kind /\ t.key = key}

\* C20: a bucket in its Map has exactly one pending timer, the one armed by
\* the insertion that created it and due one debounce window after that
\* insertion; no insertion arms a second timer for the bucket or moves the
\* due time, and the bucket is not flushed before that time.
C20_TimerArmedOnce ==
  /\ \A k \in NdKeys :
       LET i == newDelegatorBuckets[k] IN
         i # NoBucket =>
           \E t \in timers :
             /\ PendingFor("newDelegator", k) = {t}
             /\ t.due = ndHist[i].first + NEW_DELEGATOR_AGG_WINDOW_MS
             /\ ndObjs[i].timer = t.id
  /\ \A i \in DOMAIN ndObjs :
       /\ ndHist[i].armed = 1
       /\ \A at \in ndHist[i].flushedAt :
            at >= ndHist[i].first + NEW_DELEGATOR_AGG_WINDOW_MS
  /\ \A k \in CmKeys :
       LET i == commissionBuckets[k] IN
         i # NoBucket =>
           \E t \in timers :
             /\ PendingFor("commission", k) = {t}
             /\ t.due = cmHist[i].first + AGG_WINDOW_MS
             /\ cmObjs[i].timer = t.id
  /\ \A i \in DOMAIN cmObjs :
       /\ cmHist[i].armed = 1
       /\ \A at \in cmHist[i].flushedAt : at >= cmHist[i].first + AGG_WINDOW_MS

\* A bucket took a second insertion half a window after its first one and
\* was flushed one window after the first.
C20_Witness ==
  \E i \in DOMAIN ndObjs :
    /\ ndHist[i].inserts = 2
    /\ ndHist[i].last > ndHist[i].first
    /\ ndHist[i].flushedAt = {ndHist[i].first + NEW_DELEGATOR_AGG_WINDOW_MS}

\* ---------------------------------------------------------------- C21
\* The new-delegator notifications sent for a bucket object.
NotifiedFor(i) ==
  {k \in DOMAIN newDelegatorJoined : newDelegatorJoined[k].bucket = i}

\* C21: a new-delegator notification is sent at most once per bucket, carries
\* the account, the target pool and the stake of the bucket, and is sent only
\* for a bucket that holds all three facets at its flush: the added
\* delegation, the target and the increased stake.
C21_NotifyOnlyComplete ==
  /\ \A i \in DOMAIN ndObjs : Cardinality(NotifiedFor(i)) <= 1
  /\ \A k \in DOMAIN newDelegatorJoined :
       LET n == newDelegatorJoined[k]
           b == ndObjs[n.bucket]
       IN /\ NdFacets(b) = 3
          /\ n.account = b.account
          /\ n.poolId = b.validatorId
          /\ n.stakeMicro = b.stakeMicro

CommissionNotifiedFor(i) ==
  {k \in DOMAIN commissionChanged : commissionChanged[k].bucket = i}

\* The flush of the bucket object has written the baking rate b as
\* last-notified and has returned.
RecordedBaking(i, b) ==
  /\ cmFlush[i].pc = "done"
  /\ cmFlush[i].needUpdateBaking \/ cmFlush[i].needUpdateTxFee
  /\ cmObjs[i].baking = b

\* C23: a flush for validator v that starts after another flush for v has
\* recorded the baking rate b as last-notified and returned, that reads b as
\* last-notified and reports the same b and no other changed rate, decides
\* not to notify and sends no commission-changed notification.
C23_SameBakingNoSecondNotification ==
  \A i, j \in DOMAIN cmObjs :
    ( /\ i \in cmFlush[j].doneBefore
      /\ ValidatorOf(i) = ValidatorOf(j)
      /\ RecordedBaking(i, cmObjs[j].baking)
      /\ cmFlush[j].rowCount = 1
      /\ cmFlush[j].prevBaking = cmObjs[j].baking
      /\ cmObjs[j].txFee \in {NoRate, cmFlush[j].prevTxFee} )
    => /\ cmFlush[j].pc \in {"update_current", "done"}
       /\ ~cmFlush[j].needUpdateBaking
       /\ CommissionNotifiedFor(j) = {}

\* The first flush notified the change of the baking rate to b and returned,
\* the second one reported b again and has returned without notification.
C23_Witness ==
  \E i, j \in DOMAIN cmObjs :
    /\ i \in cmFlush[j].doneBefore
    /\ RecordedBaking(i, cmObjs[j].baking)
    /\ CommissionNotifiedFor(i) # {}
    /\ cmObjs[j].txFee = NoRate
    /\ cmFlush[j].prevBaking = cmObjs[j].baking
    /\ cmFlush[j].pc = "done"
    /\ CommissionNotifiedFor(j) = {}

\* ---------------------------------------------------------------- C24
\* The flush of the bucket object reports a fee rate only, has read the row
\* of its validator, and the fee differs from the last-notified fee it read.
FeeOnlyChange(i) ==
  /\ cmObjs[i].baking = NoRate
  /\ cmObjs[i].txFee # NoRate
  /\ cmFlush[i].pc \notin {"none", "select"}
  /\ cmFlush[i].rowCount = 1
  /\ cmFlush[i].prevTxFee # cmObjs[i].txFee

\* C24: a flush that reports only a transaction-fee rate differing from the
\* last-notified fee rate decides to notify, sends one notification per
\* recipient, and the notification shows the last-notified baking rate as old
\* and new baking rate, the last-notified fee as old fee and the reported
\* fee as new fee.
C24_FeeOnlyChangeShowsBothRates ==
  \A i \in DOMAIN cmObjs :
    FeeOnlyChange(i) =>
      /\ cmFlush[i].needUpdateTxFee
      /\ cmFlush[i].pc \in {"update_notified", "recipients", "done"}
      /\ cmFlush[i].pc = "done" =>
           Cardinality(CommissionNotifiedFor(i)) = cmFlush[i].recipients
      /\ \A k \in CommissionNotifiedFor(i) :
           LET n == commissionChanged[k] IN
             /\ cmFlush[i].prevBaking # NoRate
             /\ n.oldBaking = cmFlush[i].prevBaking
             /\ n.newBaking = cmFlush[i].prevBaking
             /\ n.oldTx = cmFlush[i].prevTxFee
             /\ n.newTx = cmObjs[i].txFee

\* A fee-only flush has returned after notifying its recipient.
C24_Witness ==
  \E i \in DOMAIN cmObjs :
    /\ FeeOnlyChange(i)
    /\ cmFlush[i].pc = "done"
    /\ cmFlush[i].recipients = 1
    /\ \E k \in CommissionNotifiedFor(i) :
         commissionChanged[k].oldTx # commissionChanged[k].newTx

\* ---------------------------------------------------------------- C25
\* The insertions into the two bucket objects fall into one debounce window.
SameWindow(i, j) ==
  /\ cmHist[j].first >= cmHist[i].first
  /\ cmHist[j].last < cmHist[i].first + AGG_WINDOW_MS

\* C25: commission events of one validator that arrive within one debounce
\* window, in the same or in different transactions, are gathered in one
\* bucket: no two bucket objects of a validator share a window, so the
\* window ends with one flush and at most one notification per recipient.
C25_OneBucketPerValidator ==
  \A i, j \in DOMAIN cmObjs :
    (i # j /\ ValidatorOf(i) = ValidatorOf(j)) => ~SameWindow(i, j)

\* ---------------------------------------------------------------- C26
\* A reported rate of the bucket object differs from the last-notified value
\* the flush has read (a row just made by the flush has none to differ from
\* and is notified).
DiffersFromLastNotified(i) ==
  \/ cmFlush[i].rowCount = 0
  \/ cmObjs[i].baking \notin {NoRate, cmFlush[i].prevBaking}
  \/ cmObjs[i].txFee \notin {NoRate, cmFlush[i].prevTxFee}

\* C26: a commission flush decides to notify exactly when a reported rate
\* differs from the last-notified value of that rate, whatever the current
\* rates of the row are; a flush that does not notify writes the current
\* rates only and leaves the last-notified rates of the row as they are; a
\* notification is sent only by a flush that decided to notify.
C26_DedupByLastNotified ==
  [][ /\ \A i \in DOMAIN cmObjs' :
           cmFlush'[i].pc \in {"update_current", "update_notified", "recipients", "done"} =>
             /\ (cmFlush'[i].pc = "update_current" \/
                 (cmFlush'[i].pc = "done" /\ ~cmFlush'[i].needUpdateBaking
                                          /\ ~cmFlush'[i].needUpdateTxFee))
                <=> ~DiffersFromLastNotified(i)'
             /\ CommissionNotifiedFor(i)' # {} => DiffersFromLastNotified(i)'
      /\ \A i \in DOMAIN cmObjs :
           (cmFlush[i].pc = "update_current" /\ cmFlush'[i].pc = "done") =>
             LET v == ValidatorOf(i) IN
               /\ validator_commissions'[v].last_notified_baking_rate =
                    validator_commissions[v].last_notified_baking_rate
               /\ validator_commissions'[v].last_notified_transaction_fee_rate =
                    validator_commissions[v].last_notified_transaction_fee_rate
               /\ validator_commissions'[v].baking_rate =
                    Coalesce(cmObjs[i].baking, validator_commissions[v].baking_rate)
               /\ commissionChanged' = commissionChanged ]_vars

\* With A last notified, a flush reported B and notified A -> B, and the
\* next flush reported A and notified B -> A.
C26_Witness ==
  \E k, l \in DOMAIN commissionChanged :
    /\ k < l
    /\ commissionChanged[k].oldBaking # commissionChanged[k].newBaking
    /\ commissionChanged[l].oldBaking = commissionChanged[k].newBaking
    /\ commissionChanged[l].newBaking = commissionChanged[k].oldBaking
    /\ commissionChanged[k].bucket \in cmFlush[commissionChanged[l].bucket].doneBefore

\* --------------------------------------------------- memo matching: C27
\* The character a memo character counts as: compatibility form folded,
\* control characters as white space, letters in lower case.
FoldChar(c) == LowerChar(CtlToSpace(NFKC(c)))

RECURSIVE Words(_)
\* The words of a memo, in order: its maximal runs of characters that are
\* not white space, case folded.
Words(s) ==
  IF s = <<>> THEN <<>>
  ELSE IF IsWs(FoldChar(Head(s))) THEN Words(Tail(s))
  ELSE LET rest == Tail(s)
           more == Words(rest)
       IN IF rest # <<>> /\ ~IsWs(FoldChar(Head(rest)))
            THEN <<(<<FoldChar(Head(s))>> \o Head(more))>> \o Tail(more)
            ELSE <<(<<FoldChar(Head(s))>>)>> \o more

IsDigit(c) == c \in {"1", "2", "8", "9"}
\* The digits of a memo, in order.
Digits(s) == SelectSeq([i \in DOMAIN s |-> FoldChar(s[i])], IsDigit)

\* C27: a transaction memo and an expected memo are treated as equal by the
\* correlation step exactly when normMemo yields the same string for both;
\* memos that differ only in letter case or in leading, trailing or repeated
\* white space match, memos whose digits differ do not, and normMemo applied
\* to its own result changes nothing.
C27_MemoMatchByNormalForm ==
  (memoOk # "unset" /\ memoText # Empty) =>
    /\ (memoOk = "ok") <=> (normMemo(memoText) = normMemo(memoExpected))
    /\ Words(memoText) = Words(memoExpected) => memoOk = "ok"
    /\ Digits(memoText) # Digits(memoExpected) => memoOk = "no"
    /\ normMemo(normMemo(memoText)) = normMemo(memoText)
    /\ normMemo(normMemo(memoExpected)) = normMemo(memoExpected)

\* Memos that differ in case and in repeated white space have been matched.
C27_Witness ==
  /\ memoText = <<"a", " ", " ", "9">>
  /\ memoExpected = <<"A", " ", "9">>
  /\ memoOk = "ok"

\* --------------------------------------------- block at a time: C28
\* C28: the loop hands block h+1 to processBlock only after processBlock of
\* block h has returned: while a processBlock runs the loop is suspended at
\* its call for that block, a block is started only with no processBlock
\* running and lastHeight at the block before, and every correlation,
\* callback and event handler runs inside the processBlock of its block.
C28_BlockAtATime ==
  [][/\ pb'.pc # "idle" =>
          /\ pc' = "main_block"
          /\ processed' # <<>>
          /\ cur' = processed'[Len(processed')]
     /\ processed' # processed =>
          /\ pb = IdlePb
          /\ pb'.pc # "idle"
          /\ processed # <<>> => lastHeight = processed[Len(processed)]
     /\ (succ' # succ \/ wrong' # wrong \/ pb'.ev > pb.ev) =>
          /\ pb.pc # "idle"
          /\ processed' = processed]_vars

\* The second block is being processed, after a callback of a block ran.
C28_Witness ==
  /\ Len(processed) = 2
  /\ lastHeight = processed[1]
  /\ pb.pc = "alerts"
  /\ \E i \in Ids : succ[i] = 1

\* ------------------------------------------------ the probe gate: C29
\* C29: until getConsensusStatus has resolved no block stream is open and no
\* block has been processed; a stream is opened and blocks are fetched and
\* processed only from inside the loop; and when the probe rejects,
\* startTxLoggerListener rejects: the loop is never entered, no stream is
\* ever opened and no block is ever processed.
C29_ProbeGatesStreaming ==
  [][/\ probe # "resolved" =>
          /\ pc = (IF probe = "pending" THEN "probe" ELSE "failed")
          /\ nextMin = NoHeight
          /\ streamStart = NoHeight
          /\ processed = <<>>
          /\ lastHeight = NoHeight
          /\ attempts = [k \in Heights |-> 0]
     /\ probe = "resolved" => pc \in LoopStates
     /\ probe' # probe => probe = "pending"
     /\ probe = "rejected" => UNCHANGED vars
     /\ (nextMin' # nextMin \/ processed' # processed \/ attempts' # attempts) =>
          probe = "resolved" /\ pc \in LoopStates]_vars

\* The probe was rejected: the listener has failed without a stream.
C29_Witness ==
  /\ probe = "rejected"
  /\ pc = "failed"
  /\ nextMin = NoHeight
  /\ processed = <<>>

\* ------------------------------------ the two streams of a block: C30
\* C30: an exception while the transactions of a block are read, correlated
\* or handled takes processBlock straight to the special events of the
\* block, which are read and dispatched all the same; and the end of the
\* special-event stream, by exhaustion or by an exception, leaves what the
\* transactions of the block did as it is and the block counts as
\* processed (lastHeight is its height).
C30_StreamsIndependent ==
  [][/\ (pb.threw = "no" /\ pb'.threw # "no") =>
          /\ pb.pc \notin {"idle", "special"}
          /\ pb'.pc = "special"
     /\ (pb.pc = "special" /\ pb'.pc = "special" /\ pb' # pb) =>
          /\ pb'.ev = pb.ev + 1
          /\ pb'.threw = pb.threw
     /\ (pb.pc = "special" /\ pb'.pc # "special") =>
          /\ pb' = IdlePb
          /\ lastHeight' = cur
          /\ cur = processed[Len(processed)]
          /\ pc' = "await_block"
          /\ UNCHANGED <<waiters, succ, wrong, txDone, processed>>]_vars

\* After the transaction stream of a block threw, a special event of the
\* block has been dispatched.
C30_Witness ==
  /\ pb.pc = "special"
  /\ pb.threw = "stream"
  /\ pb.ev = 1

\* ------------------------------------------ concurrent flushes: C31
\* The flushes of two bucket objects overlap: each has read the row, and
\* neither had returned when the other one read it.
Overlap(i, j) ==
  /\ i # j
  /\ cmFlush[i].pc \notin {"none", "select"}
  /\ cmFlush[j].pc \notin {"none", "select"}
  /\ i \notin cmFlush[j].doneBefore
  /\ j \notin cmFlush[i].doneBefore

\* C31: of two commission buckets of the same validator that report the same
\* rates and whose flushes overlap, at most one sends a commission-changed
\* notification.
C31_NoDoubleNotification ==
  \A i, j \in DOMAIN cmObjs :
    ( /\ Overlap(i, j)
      /\ ValidatorOf(i) = ValidatorOf(j)
      /\ cmObjs[i].baking = cmObjs[j].baking
      /\ cmObjs[i].txFee = cmObjs[j].txFee )
    => ~(CommissionNotifiedFor(i) # {} /\ CommissionNotifiedFor(j) # {})

\* ------------------------------------------------------ retryAsync: C32
\* C32: fn is invoked at most retries + 1 times; retryAsync resolves with
\* the value of the first invocation that resolved, which is the last one
\* made; when retries + 1 invocations rejected it rejects with the error of
\* the last one; after it settled fn is not invoked again; and it settles
\* whenever fn does.
C32_RetryBounded ==
  /\ [](/\ fnCalls <= retryArg + 1
        /\ retryPc = "returned" =>
             /\ retryResult \in FnValues
             /\ Len(fnErrors) = fnCalls - 1
        /\ retryPc = "thrown" =>
             /\ fnCalls = retryArg + 1
             /\ Len(fnErrors) = fnCalls
             /\ retryResult = fnErrors[fnCalls])
  /\ [][(retryPc \in {"returned", "thrown"}) => fnCalls' = fnCalls]_vars
  /\ <>(retryPc \in {"returned", "thrown"})

\* Every invocation but the last rejected and retryAsync resolved with the
\* value of the last one.
C32_Witness ==
  /\ retryPc = "returned"
  /\ retryArg = 2
  /\ fnCalls = 3
  /\ Len(fnErrors) = 2
  /\ retryResult \in FnValues

\* ------------------------------------- removal during a correlation: C33
\* C33: when the waiter of the sender is removed while processBlock is
\* suspended between `has(key)` and `get(key)` (during the memo read or the
\* other role's onSuccess), the transactions that follow in the block are
\* still processed: none is left unread when processBlock moves on to the
\* special events.
C33_RemovalKeepsBlock ==
  (pb.pc = "special" /\ pb.threw = "tx") => pb.left = 0

\* ------------------------------ registration during an onSuccess: C34
\* The position of processBlock while it awaits the onSuccess of a role.
AwaitSuccess(role) ==
  IF role = "Delegator" THEN "await_d_success" ELSE "await_v_success"

\* C34: a waiter registered for the same role and address while processBlock
\* awaits the onSuccess of the previous waiter is still in the registry when
\* that onSuccess has settled.
C34_ReregistrationSurvives ==
  [][\A r \in Roles :
       ( /\ pb.pc = AwaitSuccess(r)
         /\ pb'.pc # pb.pc
         /\ waiters[r][pb.key].id \notin {0, pb.inflight} )
       => waiters'[r][pb.key] = waiters[r][pb.key]]_vars

\* ------------------------------------------- a throwing onSuccess: C35
\* C35: when the onSuccess of a matched waiter throws or rejects, the key of
\* the waiter is empty once processBlock goes on, and no waiter's onSuccess
\* is invoked a second time.
C35_ThrowingSuccessConsumes ==
  [][/\ \A r \in Roles :
          ( /\ pb.pc = AwaitSuccess(r)
            /\ pb'.pc # pb.pc
            /\ pb'.threw = "cb" )
          => waiters'[r][pb.key] = NoWaiter
     /\ \A i \in Ids : succ'[i] > succ[i] => succ[i] = 0]_vars

\* The onSuccess of waiter i was invoked once and rejected; its key is empty.
C35_Witness ==
  /\ pb.pc = "special"
  /\ pb.threw = "cb"
  /\ \E i \in Ids :
       /\ succ[i] = 1
       /\ regs[i].key = pb.key
       /\ waiters[regs[i].role][pb.key] = NoWaiter

\* ------------------------------------- cancel through a wrapper: C36
\* The waiter a wrapper call registered is in the listener's registry.
WrapperWaiterLive(w) ==
  /\ wrappers[w].reg # 0
  /\ waiters[wrappers[w].role][regs[wrappers[w].reg].key].id = wrappers[w].reg

\* C36: once the cancel function returned by a register wrapper has been
\* called, the waiter of that wrapper call is never live in the listener's
\* registry, also when cancel was called before the module load and the
\* registration completed.
C36_WrapperCancelEffective ==
  \A w \in Ids : wrappers[w].cancelled => ~WrapperWaiterLive(w)

\* -------------------------------------------- match past the TTL: C37
\* C37: a waiter whose age exceeds the TTL and that no prune pass has
\* removed yet still gets onSuccess for a matching transaction, and the
\* expiry notifier is then never invoked for it.
C37_OverdueMatchNoExpiry ==
  [][\A i \in Ids :
       ( /\ pb.pc \in {"await_d_success", "await_v_success"}
         /\ pb.inflight = i
         /\ pb.overdue
         /\ succ[i] > 0 )
       => expired'[i] = expired[i]]_vars

\* ------------------------------------- every bucket is flushed: C38
\* A commission bucket object created without transaction hash.
NoHashBucket(i) == cmObjs[i].txHash = Null

\* C38: every bucket in the new-delegator or in the commission Map has
\* exactly one pending timer, a commission bucket created without
\* transaction hash is flushed in the call that creates it and is never in
\* the Map, and every bucket in a Map is removed by its flush later on, so
\* both Maps become empty once the events stop.
C38_EveryBucketFlushed ==
  /\ [](/\ \A k \in NdKeys :
             newDelegatorBuckets[k] # NoBucket =>
               Cardinality(PendingFor("newDelegator", k)) = 1
        /\ \A k \in CmKeys :
             commissionBuckets[k] # NoBucket =>
               Cardinality(PendingFor("commission", k)) = 1
        /\ \A i \in DOMAIN cmObjs :
             NoHashBucket(i) =>
               /\ cmHist[i].runs = 1
               /\ cmHist[i].flushedAt = {cmHist[i].first}
               /\ \A k \in CmKeys : commissionBuckets[k] # i)
  /\ \A k \in NdKeys :
       (newDelegatorBuckets[k] # NoBucket) ~> (newDelegatorBuckets[k] = NoBucket)
  /\ \A k \in CmKeys :
       (commissionBuckets[k] # NoBucket) ~> (commissionBuckets[k] = NoBucket)
  /\ <>[](/\ \A k \in NdKeys : newDelegatorBuckets[k] = NoBucket
          /\ \A k \in CmKeys : commissionBuckets[k] = NoBucket
          /\ timers = {})

\* Both kinds of bucket were flushed by their timers, a bucket without hash
\* in its own call, and both Maps are empty.
C38_Witness ==
  /\ \E i \in DOMAIN ndObjs : ndHist[i].runs = 1
  /\ \E i \in DOMAIN cmObjs : ~NoHashBucket(i) /\ cmHist[i].runs = 1
  /\ \E i \in DOMAIN cmObjs : NoHashBucket(i)
  /\ \A k \in NdKeys : newDelegatorBuckets[k] = NoBucket
  /\ \A k \in CmKeys : commissionBuckets[k] = NoBucket
  /\ timers = {}

\* ============================== handleTxAlerts (part_007:450-990)
\* `ev.delegatorId ?? ev.delegator_id` as the node delivers it; "x" is a
\* value Number() does not turn into a finite number.
RawDelegatorIds == {"1", "x"}
\* null of toNum.
NoNum == -1
\* toNum(x): Number(x) when it is finite, else null.
toNum(x) == IF x = "1" THEN 1 ELSE NoNum
\* String(delegatorId) of a number toNum returned.
StringOf(n) == IF n = 1 THEN "1" ELSE "null"
\* poolId of a target of type "pool".
TargetPools == {7}
\* parseDelegationTargetFromEvent: a target of type "passive".
Passive == 0
\* An event that carries no delegation target.
NoTarget == -1

\* The delegation events handleTxAlerts tells apart, each with an account.
TxEvents ==
  [tag : {"DelegationAdded", "DelegationStakeIncreased",
          "DelegationStakeDecreased", "DelegationRemoved"},
   delegatorId : RawDelegatorIds, target : {NoTarget}]
  \cup [tag : {"DelegationSetDelegationTarget"},
        delegatorId : RawDelegatorIds, target : {Passive} \cup TargetPools]

\* The event lists of one transaction.
TxLists == UNION {[1..n -> TxEvents] : n \in 0..MaxTxLen}

\* One call into modules/alerts.js, made for event i of the list.
AlertCall(handler, delegatorId, validatorId, i) ==
  [handler |-> handler, delegatorId |-> delegatorId,
   validatorId |-> validatorId, ev |-> i]

\* vdel.getPoolsForDelegator(delegatorId): the rows of the delegator, or the
\* empty list the caller keeps when the query threw.
getPoolsForDelegator(d, getOk) == IF getOk THEN vdelPools[d] ELSE {}

\* Lines 524-560: DelegationRemoved.
CallsRemoved(ev, i, mappings) ==
  IF toNum(ev.delegatorId) = NoNum THEN {}
  ELSE {AlertCall("handleDelegatorLeftPool", StringOf(toNum(ev.delegatorId)),
                  m, i) : m \in mappings}

\* Lines 562-658: DelegationSetDelegationTarget, the immediate part.
CallsTarget(ev, i, mappings, new) ==
  IF toNum(ev.delegatorId) = NoNum THEN {}
  ELSE IF ev.target = Passive
    THEN {AlertCall("handleDelegatorLeftPool",
                    StringOf(toNum(ev.delegatorId)), m, i) : m \in mappings}
    ELSE {AlertCall("handleDelegatorLeftPool",
                    StringOf(toNum(ev.delegatorId)), m, i) :
            m \in mappings \ {ev.target}}
         \cup (IF ev.target \notin mappings
                  /\ toNum(ev.delegatorId) \notin new
                 THEN {AlertCall("handleDelegatorJoinedPool",
                                 StringOf(toNum(ev.delegatorId)),
                                 ev.target, i)}
                 ELSE {})

\* Lines 778-792: DelegationSetDelegationTarget, the bucket part.
CallsTargetSet(ev, i) ==
  IF ev.target \in TargetPools
    THEN {AlertCall("handleNewDelegator_TargetSet", ev.delegatorId,
                    ev.target, i)}
    ELSE {}

\* Lines 661-720: DelegationStakeIncreased.
CallsStakeIncreased(ev, i, mappings, new) ==
  {AlertCall("handleDelegatorStakeIncreased", ev.delegatorId, NoTarget, i)}
  \cup (IF toNum(ev.delegatorId) # NoNum /\ toNum(ev.delegatorId) \notin new
          THEN {AlertCall("handleDelegatorStakeChangedForValidator",
                          StringOf(toNum(ev.delegatorId)), m, i) :
                  m \in mappings}
          ELSE {})
  \cup {AlertCall("handleNewDelegator_StakeIncreased", ev.delegatorId,
                  NoTarget, i)}

\* Lines 721-760: DelegationStakeDecreased.
CallsStakeDecreased(ev, i, mappings) ==
  {AlertCall("handleDelegatorStakeDecreased", ev.delegatorId, NoTarget, i)}
  \cup (IF toNum(ev.delegatorId) # NoNum
          THEN {AlertCall("handleDelegatorStakeChangedForValidator",
                          StringOf(toNum(ev.delegatorId)), m, i) :
                  m \in mappings}
          ELSE {})

\* Lines 762-776: DelegationAdded.
CallsAdded(ev, i) ==
  {AlertCall("handleNewDelegator_DelegationAdded", ev.delegatorId,
             NoTarget, i)}

\* The calls one iteration of the second loop makes for ev.
AlertCalls(ev, i, mappings, new) ==
  CASE ev.tag = "DelegationRemoved" -> CallsRemoved(ev, i, mappings)
    [] ev.tag = "DelegationSetDelegationTarget" ->
         CallsTarget(ev, i, mappings, new) \cup CallsTargetSet(ev, i)
    [] ev.tag = "DelegationStakeIncreased" ->
         CallsStakeIncreased(ev, i, mappings, new)
    [] ev.tag = "DelegationStakeDecreased" ->
         CallsStakeDecreased(ev, i, mappings)
    [] OTHER -> CallsAdded(ev, i)

\* validator_delegators after the iteration: markDelegatorInactiveEverywhere
\* deletes the rows of the delegator, setDelegatorActiveForPool replaces
\* them by one row; a query that throws leaves the table as it was.
VdelAfter(ev, setOk) ==
  IF ~setOk \/ toNum(ev.delegatorId) = NoNum THEN vdelPools
  ELSE IF ev.tag = "DelegationRemoved"
          \/ (ev.tag = "DelegationSetDelegationTarget" /\ ev.target = Passive)
    THEN [vdelPools EXCEPT ![toNum(ev.delegatorId)] = {}]
  ELSE IF ev.tag = "DelegationSetDelegationTarget"
    THEN [vdelPools EXCEPT ![toNum(ev.delegatorId)] = {ev.target}]
  ELSE vdelPools

\* Lines 451-522: the first loop over the events, synchronous.
ScanEvents ==
  /\ txaPc = "scan"
  /\ newDelegatorsInTx' =
       {toNum(txEvents[i].delegatorId) :
          i \in {j \in DOMAIN txEvents :
                   txEvents[j].tag = "DelegationAdded"}} \ {NoNum}
  /\ txaPc' = "fanout"
  /\ txaIdx' = 1
  /\ UNCHANGED <<txEvents, vdelPools, dispatched>>
  /\ UNCHANGED <<streamVars, waiterVars, bucketVars, commissionVars, memoVars,
                 retryVars, wrapperVars>>

\* Lines 524-990: one iteration of the second loop, every call awaited in
\* its own try/catch.
FanOutEvent(getOk, setOk) ==
  /\ txaPc = "fanout"
  /\ txaIdx <= Len(txEvents)
  /\ dispatched' = dispatched \cup
       AlertCalls(txEvents[txaIdx], txaIdx,
                  IF toNum(txEvents[txaIdx].delegatorId) = NoNum THEN {}
                  ELSE getPoolsForDelegator(
                         toNum(txEvents[txaIdx].delegatorId), getOk),
                  newDelegatorsInTx)
  /\ vdelPools' = VdelAfter(txEvents[txaIdx], setOk)
  /\ txaIdx' = txaIdx + 1
  /\ UNCHANGED <<txEvents, txaPc, newDelegatorsInTx>>
  /\ UNCHANGED <<streamVars, waiterVars, bucketVars, commissionVars, memoVars,
                 retryVars, wrapperVars>>

\* The second loop is over, handleTxAlerts returns.
FanOutDone ==
  /\ txaPc = "fanout"
  /\ txaIdx > Len(txEvents)
  /\ txaPc' = "done"
  /\ UNCHANGED <<txEvents, txaIdx, newDelegatorsInTx, vdelPools, dispatched>>
  /\ UNCHANGED <<streamVars, waiterVars, bucketVars, commissionVars, memoVars,
                 retryVars, wrapperVars>>

\* handleTxAlerts(events, ...) has been called with any event list, on any
\* content of validator_delegators; everything else at rest.
InitFanout ==
  /\ pc = "await_block"
  /\ probe = "resolved"
  /\ lastHeight = NoHeight
  /\ cur = NoHeight
  /\ hh = NoHeight
  /\ nextMin = 0
  /\ streamStart = NoHeight
  /\ processed = <<>>
  /\ attempts = [k \in Heights |-> 0]
  /\ fetchFailed = {}
  /\ fetchEmpty = {}
  /\ errors = 0
  /\ InitRegistry
  /\ InitBuckets
  /\ NoMemoCompared
  /\ NoRetry
  /\ txEvents \in TxLists
  /\ txaPc = "scan"
  /\ txaIdx = 0
  /\ newDelegatorsInTx = {}
  /\ vdelPools \in [DelegatorNums -> SUBSET TargetPools]
  /\ dispatched = {}

NextFanout ==
  \/ ScanEvents
  \/ \E getOk \in BOOLEAN, setOk \in BOOLEAN : FanOutEvent(getOk, setOk)
  \/ FanOutDone

SpecFanout == InitFanout /\ [][NextFanout]_vars

\* The delegators the transaction has a DelegationAdded event for.
AddedInTx ==
  {toNum(txEvents[i].delegatorId) :
     i \in {j \in DOMAIN txEvents : txEvents[j].tag = "DelegationAdded"}}
  \ {NoNum}

====
